---- MODULE Spec2Model ----
(***************************************************************************)
(* A model of @sabl/context (libsabl/context-js): the Canceler firing      *)
(* protocol (src/src/canceler.ts) and the context tree with its cascading  *)
(* cancel / deadline derivation (src/src/context.ts).                      *)
(*                                                                         *)
(* The program is single threaded: one step of the model is one call made  *)
(* by a client of the library (or one timer callback run by the event      *)
(* loop), executed to completion together with every callback it invokes.  *)
(***************************************************************************)
EXTENDS Integers, Sequences, FiniteSets, TLC

(***************************************************************************)
(* Bounds of the model                                                     *)
(***************************************************************************)
\* Cancelers that may be created
MaxClr == 3
\* Context nodes that may be created, the background context included
MaxCtx == 4
\* Largest value of the clock
MaxTime == 1
\* Listeners that may be pending on one standalone Canceler
MaxPending == 3
\* Listeners that may be pending on the Canceler of one context
MaxListen == 1
\* Context nodes that may be created where only deadline contexts are derived
MaxLiveCtx == 5
\* Context nodes that may be created under a context of the client's own
MaxKeyCtx == 5
\* Listeners that may be pending on a Canceler where the order of a cascade
\* is observed
MaxOrderListen == 2

VARIABLES
  clr,      \* the Canceler objects: <<[canceled, canceling, err, callbacks]>>
  timers,   \* timers[c]: the timeout armed by withDeadline for Canceler c
  funcs,    \* funcs[c]: the CancelFunc returned along with Canceler c
  ctxs,     \* the context nodes: <<[kind, parent, key, val, clr]>>
  now,      \* the clock (+new Date())
  last,     \* the call made by the last step, and what it returned
  trace     \* what the last step did to listeners: add / del / call events

vars == <<clr, timers, funcs, ctxs, now, last, trace>>

Range(s) == {s[i] : i \in 1..Len(s)}

Remove(s, x) == SelectSeq(s, LAMBDA y : y /= x)

(***************************************************************************)
(* JavaScript values that reach CanceledError.create / DeadlineError.is.   *)
(* ty is the value's typeof ("null" and "undefined" kept apart), id the    *)
(* identity of an object, canc / dl the SymErrCanceled / SymErrDeadline    *)
(* decorations, isErr whether it is an instanceof Error.                   *)
(***************************************************************************)
Undefined ==
  [ty |-> "undefined", id |-> 0, canc |-> FALSE, dl |-> FALSE,
   isErr |-> FALSE, msg |-> "", cause |-> 0]

Null == [Undefined EXCEPT !.ty = "null"]

\* The marker of a call that threw instead of returning a value
Thrown == [Undefined EXCEPT !.ty = "throw"]

\* cancel('rejected')
StrReason == [Undefined EXCEPT !.ty = "string", !.msg = "rejected"]

\* cancel(<any>5): a reason CanceledError.create cannot wrap
NumReason == [Undefined EXCEPT !.ty = "number"]

\* new DeadlineError('times up'), made by the client
ClientDeadlineError ==
  [ty |-> "object", id |-> 1, canc |-> TRUE, dl |-> TRUE,
   isErr |-> TRUE, msg |-> "times up", cause |-> 0]

\* new Error('boom'), made by the client: an object that is no CanceledError
ClientPlainError ==
  [ty |-> "object", id |-> 2, canc |-> FALSE, dl |-> FALSE,
   isErr |-> TRUE, msg |-> "boom", cause |-> 0]

\* The reasons a client passes to a CancelFunc
Reasons == {Undefined, StrReason, NumReason, ClientDeadlineError, ClientPlainError}

\* Identity of the error object allocated by Canceler c's #cancel
ErrBase == 100

\* CanceledError.is
CanceledErrorIs(reason) ==
  IF reason.ty \in {"null", "undefined"} THEN FALSE
  ELSE IF reason.ty /= "object" THEN FALSE
  ELSE reason.canc

\* DeadlineError.is
DeadlineErrorIs(reason) == CanceledErrorIs(reason) /\ reason.dl

\* new CanceledError(message, {cause}) allocated with identity id
NewCanceledError(id, message, cause) ==
  [ty |-> "object", id |-> id, canc |-> TRUE, dl |-> FALSE, isErr |-> TRUE,
   msg |-> IF message = "" THEN "Operation was canceled" ELSE message,
   cause |-> cause]

\* CanceledError.create, were it to wrap every object, a CanceledError too
CanceledErrorCreateWrap(reason, id) ==
  IF reason.ty \in {"object", "null"} THEN NewCanceledError(id, "", reason.id)
  ELSE IF reason.ty = "string" THEN NewCanceledError(id, reason.msg, 0)
  ELSE IF reason.ty = "undefined" THEN NewCanceledError(id, "", 0)
  ELSE Thrown

\* CanceledError.create: the result, or Thrown
CanceledErrorCreate(reason, id) ==
  IF CanceledErrorIs(reason) /\ reason.isErr THEN reason
  ELSE IF reason.ty \in {"object", "null"} THEN NewCanceledError(id, "", reason.id)
  ELSE IF reason.ty = "string" THEN NewCanceledError(id, reason.msg, 0)
  ELSE IF reason.ty = "undefined" THEN NewCanceledError(id, "", 0)
  ELSE Thrown

(***************************************************************************)
(* Callbacks.  A callback is a function object: the bound #cancel of a     *)
(* child Canceler (cfn), the clearAndCancel closure of a deadline context  *)
(* (cac), or a listener of the client (user).                              *)
(***************************************************************************)
Cfn(c) == [t |-> "cfn", n |-> c]

Cac(c) == [t |-> "cac", n |-> c]

User(k) == [t |-> "user", n |-> k]

\* The listeners a client registers.  Each records its invocation (the
\* trace) and then runs its body on the Canceler that invoked it:
\*   1, 2  do nothing more
\*   3     calls the Canceler's CancelFunc again, then registers listener 1
\*   4     unregisters listener 2
\*   5     throws
\*   6     (a listener of a context) derives from the context it listens
\*         to: withCancel(ctx), then withDeadline(ctx, a deadline to come)
UserCbs == 1..5

Script(k) ==
  CASE k = 3 -> <<[op |-> "cancel", arg |-> 0], [op |-> "reg", arg |-> 1]>>
    [] k = 4 -> <<[op |-> "off", arg |-> 2]>>
    [] k = 5 -> <<[op |-> "throw", arg |-> 0]>>
    [] k = 6 -> <<[op |-> "withCancel", arg |-> 0], [op |-> "withDeadline", arg |-> MaxTime]>>
    [] OTHER -> <<>>

Event(ev, c, cb, err, imm) ==
  [ev |-> ev, clr |-> c, cb |-> cb, err |-> err, imm |-> imm]

NewCanceler(canceled) ==
  [canceled |-> canceled, canceling |-> FALSE, err |-> Null, callbacks |-> <<>>]

NoTimer == [armed |-> FALSE, at |-> 0]

\* clearTimeout(timeout.token)
clearTimeout(w, c) == [w EXCEPT !.timers[c].armed = FALSE]

\* Canceler.off, were it to delete the callback registered first when the
\* one passed is not pending
offOrFirst(w, c, cb) ==
  IF cb \in Range(w.clr[c].callbacks)
  THEN [w EXCEPT !.clr[c].callbacks = Remove(@, cb),
                 !.trace = Append(@, Event("del", c, cb, Null, FALSE))]
  ELSE IF w.clr[c].callbacks /= <<>>
  THEN [w EXCEPT !.clr[c].callbacks = Tail(@),
                 !.trace = Append(@, Event("del", c, Head(w.clr[c].callbacks), Null, FALSE))]
  ELSE w

\* Canceler.off, were it to leave the listeners alone while they are drained
offUnlessFiring(w, c, cb) ==
  IF cb \in Range(w.clr[c].callbacks) /\ ~w.clr[c].canceling
  THEN [w EXCEPT !.clr[c].callbacks = Remove(@, cb),
                 !.trace = Append(@, Event("del", c, cb, Null, FALSE))]
  ELSE w

\* Canceler.off
off(w, c, cb) ==
  IF cb \in Range(w.clr[c].callbacks)
  THEN [w EXCEPT !.clr[c].callbacks = Remove(@, cb),
                 !.trace = Append(@, Event("del", c, cb, Null, FALSE))]
  ELSE w

RECURSIVE cancel(_, _, _), drain(_, _), invoke(_, _, _, _, _), onCancel(_, _, _)
RECURSIVE run(_, _, _, _), cancelFunc(_, _, _)
RECURSIVE withCancel(_, _), withDeadline(_, _, _, _)
RECURSIVE drainOffByOne(_, _), drainUsersFirst(_, _)

\* onCancel, were it to put the callback at the head of the listeners
onCancelFront(w, c, cb) ==
  IF w.clr[c].canceled /\ ~w.clr[c].canceling
  THEN invoke(w, c, cb, w.clr[c].err, TRUE)
  ELSE IF cb \in Range(w.clr[c].callbacks) THEN w
  ELSE [w EXCEPT !.clr[c].callbacks = <<cb>> \o @,
                 !.trace = Append(@, Event("add", c, cb, Null, FALSE))]

\* onCancel, were it to queue the callback whatever the Canceler's state
onCancelQueue(w, c, cb) ==
  IF cb \in Range(w.clr[c].callbacks) THEN w
  ELSE [w EXCEPT !.clr[c].callbacks = Append(@, cb),
                 !.trace = Append(@, Event("add", c, cb, Null, FALSE))]

\* onCancel, were it to move a callback that is pending already behind the
\* others
onCancelMove(w, c, cb) ==
  IF w.clr[c].canceled /\ ~w.clr[c].canceling
  THEN invoke(w, c, cb, w.clr[c].err, TRUE)
  ELSE [w EXCEPT !.clr[c].callbacks = Append(Remove(@, cb), cb),
                 !.trace = Append(@, Event("add", c, cb, Null, FALSE))]

\* Canceler.onCancel for a callback that is a function
onCancel(w, c, cb) ==
  IF w.clr[c].canceled /\ ~w.clr[c].canceling
  THEN invoke(w, c, cb, w.clr[c].err, TRUE)
  ELSE IF cb \in Range(w.clr[c].callbacks) THEN w
  ELSE [w EXCEPT !.clr[c].callbacks = Append(@, cb),
                 !.trace = Append(@, Event("add", c, cb, Null, FALSE))]

\* The drain loop, were it to stop with one callback left (stack.size > 1)
drainOffByOne(w, c) ==
  IF Len(w.clr[c].callbacks) <= 1 THEN [w EXCEPT !.clr[c].canceling = FALSE]
  ELSE LET cb == Head(w.clr[c].callbacks)
           w1 == [w EXCEPT !.clr[c].callbacks = Tail(@)]
           w2 == invoke(w1, c, cb, w1.clr[c].err, FALSE)
       IN IF w2.exc THEN w2 ELSE drainOffByOne(w2, c)

\* The drain loop, were it to call the listeners of the clients before it
\* cascades to the children
drainUsersFirst(w, c) ==
  IF w.clr[c].callbacks = <<>> THEN [w EXCEPT !.clr[c].canceling = FALSE]
  ELSE LET users == SelectSeq(w.clr[c].callbacks, LAMBDA x : x.t = "user")
           cb == IF users /= <<>> THEN Head(users) ELSE Head(w.clr[c].callbacks)
           w1 == [w EXCEPT !.clr[c].callbacks = Remove(@, cb)]
           w2 == invoke(w1, c, cb, w1.clr[c].err, FALSE)
       IN IF w2.exc THEN w2 ELSE drainUsersFirst(w2, c)

\* The while loop of Canceler.#cancel: take the first callback of the set,
\* delete it, call it; an exception leaves the loop and the method
drain(w, c) ==
  IF w.clr[c].callbacks = <<>> THEN [w EXCEPT !.clr[c].canceling = FALSE]
  ELSE LET cb == Head(w.clr[c].callbacks)
           w1 == [w EXCEPT !.clr[c].callbacks = Tail(@)]
           w2 == invoke(w1, c, cb, w1.clr[c].err, FALSE)
       IN IF w2.exc THEN w2 ELSE drain(w2, c)

\* #cancel, were a call on a canceled Canceler to reset it
cancelToggle(w, c, reason) ==
  IF w.clr[c].canceled THEN [w EXCEPT !.clr[c].canceled = FALSE]
  ELSE LET w1 == [w EXCEPT !.clr[c].canceled = TRUE, !.clr[c].canceling = TRUE]
           e == CanceledErrorCreate(reason, ErrBase + c)
       IN IF e = Thrown THEN [w1 EXCEPT !.exc = TRUE]
          ELSE drain([w1 EXCEPT !.clr[c].err = e], c)

\* #cancel, were it to lack its first line (if (this.#canceled) return)
cancelNoGuard(w, c, reason) ==
  LET w1 == [w EXCEPT !.clr[c].canceled = TRUE, !.clr[c].canceling = TRUE]
      e == CanceledErrorCreate(reason, ErrBase + c)
  IN IF e = Thrown THEN [w1 EXCEPT !.exc = TRUE]
     ELSE drain([w1 EXCEPT !.clr[c].err = e], c)

\* Canceler.#cancel
cancel(w, c, reason) ==
  IF w.clr[c].canceled THEN w
  ELSE LET w1 == [w EXCEPT !.clr[c].canceled = TRUE, !.clr[c].canceling = TRUE]
           e == CanceledErrorCreate(reason, ErrBase + c)
       IN IF e = Thrown THEN [w1 EXCEPT !.exc = TRUE]
          ELSE drain([w1 EXCEPT !.clr[c].err = e], c)

\* The call cb(err), were the child's cancel callback not handed the err
invokeDropErr(w, c, cb, err, imm) ==
  LET w1 == [w EXCEPT !.trace = Append(@, Event("call", c, cb, err, imm))]
  IN CASE cb.t = "cfn" -> cancel(w1, cb.n, Undefined)
       [] cb.t = "cac" -> cancel(clearTimeout(w1, cb.n), cb.n, Undefined)
       [] OTHER -> run(w1, c, cb.n, Script(cb.n))

\* The call cb(err), were clearAndCancel to leave the timer pending
invokeKeepTimer(w, c, cb, err, imm) ==
  LET w1 == [w EXCEPT !.trace = Append(@, Event("call", c, cb, err, imm))]
  IN CASE cb.t = "cfn" -> cancel(w1, cb.n, err)
       [] cb.t = "cac" -> cancel(w1, cb.n, Undefined)
       [] OTHER -> run(w1, c, cb.n, Script(cb.n))

\* The call cb(err) made by Canceler c
invoke(w, c, cb, err, imm) ==
  LET w1 == [w EXCEPT !.trace = Append(@, Event("call", c, cb, err, imm))]
  IN CASE cb.t = "cfn" -> cancel(w1, cb.n, err)
       [] cb.t = "cac" -> cancel(clearTimeout(w1, cb.n), cb.n, Undefined)
       [] OTHER -> run(w1, c, cb.n, Script(cb.n))

\* The cancel context that owns Canceler c
NodeOf(w, c) ==
  CHOOSE n \in 1..Len(w.ctxs) : w.ctxs[n].kind = "Cancel" /\ w.ctxs[n].clr = c

\* A listener of Canceler c derived from context n, which took w to w1: the
\* trace records whether it got n itself with a function that does nothing
\* and nothing else changed ("same"), or something was made ("made")
derived(w, c, k, n, w1) ==
  LET same == /\ w1.ret = n /\ w1.noop
              /\ w1.clr = w.clr /\ w1.timers = w.timers
              /\ w1.funcs = w.funcs /\ w1.ctxs = w.ctxs /\ w1.trace = w.trace
  IN [w1 EXCEPT !.ret = w.ret, !.noop = w.noop,
                !.trace = Append(@, Event(IF same THEN "same" ELSE "made",
                                          c, User(k), Null, FALSE))]

\* The body of a client listener k, statement by statement
run(w, c, k, ops) ==
  IF ops = <<>> THEN w
  ELSE LET op == Head(ops)
           w1 == CASE op.op = "reg" -> onCancel(w, c, User(op.arg))
                   [] op.op = "off" -> off(w, c, User(op.arg))
                   [] op.op = "cancel" -> cancelFunc(w, c, StrReason)
                   [] op.op = "withCancel" ->
                        derived(w, c, k, NodeOf(w, c), withCancel(w, NodeOf(w, c)))
                   [] op.op = "withDeadline" ->
                        derived(w, c, k, NodeOf(w, c),
                                withDeadline(w, NodeOf(w, c), op.arg, w.now))
                   [] OTHER -> [w EXCEPT !.exc = TRUE]
       IN IF w1.exc THEN w1 ELSE run(w1, c, k, Tail(ops))

\* The CancelFunc of a withCancel child, were it to cancel the parent's
\* Canceler where it should unregister from it
cancelFuncBubble(w, c, reason) ==
  LET f == w.funcs[c]
  IN CASE f.t = "cfn" -> cancel(w, c, reason)
       [] f.t = "wrap" -> cancel(cancel(w, f.par, Undefined), c, Undefined)
       [] f.t = "cac" -> cancel(clearTimeout(w, c), c, Undefined)
       [] OTHER -> cancel(clearTimeout(off(w, f.par, Cac(c)), c), c, Undefined)

\* The CancelFunc of a child, were it to leave the child's cascade callback
\* on the parent's Canceler
cancelFuncNoOff(w, c, reason) ==
  LET f == w.funcs[c]
  IN CASE f.t = "cfn" -> cancel(w, c, reason)
       [] f.t = "wrap" -> cancel(w, c, Undefined)
       [] f.t = "cac" -> cancel(clearTimeout(w, c), c, Undefined)
       [] OTHER -> cancel(clearTimeout(w, c), c, Undefined)

\* The CancelFunc of a child, were it to call the parent's onCancel where it
\* should call off
cancelFuncReRegister(w, c, reason) ==
  LET f == w.funcs[c]
  IN CASE f.t = "cfn" -> cancel(w, c, reason)
       [] f.t = "wrap" -> cancel(onCancel(w, f.par, Cfn(c)), c, Undefined)
       [] f.t = "cac" -> cancel(clearTimeout(w, c), c, Undefined)
       [] OTHER -> cancel(clearTimeout(onCancel(w, f.par, Cac(c)), c), c, Undefined)

\* The CancelFunc of a deadline context, were a direct call to report the
\* deadline as the cause
cancelFuncAsTimer(w, c, reason) ==
  LET f == w.funcs[c]
  IN CASE f.t = "cfn" -> cancel(w, c, reason)
       [] f.t = "wrap" -> cancel(off(w, f.par, Cfn(c)), c, Undefined)
       [] f.t = "cac" -> cancel(clearTimeout(w, c), c, ClientDeadlineError)
       [] OTHER -> cancel(clearTimeout(off(w, f.par, Cac(c)), c), c, ClientDeadlineError)

\* The CancelFunc returned along with Canceler c, called with reason:
\*   cfn     the bound #cancel itself (Canceler.create, a context without a
\*           cancelable parent, a deadline already past)
\*   wrap    withCancel under a cancelable parent
\*   cac     clearAndCancel: withDeadline without a cancelable parent
\*   dlwrap  withDeadline under a cancelable parent
cancelFunc(w, c, reason) ==
  LET f == w.funcs[c]
  IN CASE f.t = "cfn" -> cancel(w, c, reason)
       [] f.t = "wrap" -> cancel(off(w, f.par, Cfn(c)), c, Undefined)
       [] f.t = "cac" -> cancel(clearTimeout(w, c), c, Undefined)
       [] OTHER -> cancel(clearTimeout(off(w, f.par, Cac(c)), c), c, Undefined)

(***************************************************************************)
(* Context nodes                                                           *)
(***************************************************************************)
\* ctxKeyDeadline, a symbol no client key equals
ctxKeyDeadline == "Symbol(Deadline)"

Keys == {"one"}

Absent == [ty |-> "undefined", n |-> 0]

Date(ms) == [ty |-> "date", n |-> ms]

Vals == {[ty |-> "number", n |-> 1]}

Node(kind, parent, key, val, c) ==
  [kind |-> kind, parent |-> parent, key |-> key, val |-> val, clr |-> c]

\* ValueContext.value, were it to take a null value for no value
\* (this.#value ?? super.value(key))
RECURSIVE valueNullish(_, _, _)
valueNullish(cs, n, key) ==
  IF n = 0 THEN Absent
  ELSE IF cs[n].kind = "Value" /\ cs[n].key = key /\ cs[n].val.ty /= "null"
       THEN cs[n].val
  ELSE valueNullish(cs, cs[n].parent, key)

\* ValueContext.value, were it to ask its parent first and to return its own
\* value only when the parent has none
RECURSIVE valueParentFirst(_, _, _)
valueParentFirst(cs, n, key) ==
  IF n = 0 THEN Absent
  ELSE LET up == valueParentFirst(cs, cs[n].parent, key)
       IN IF up /= Absent THEN up
          ELSE IF cs[n].kind = "Value" /\ cs[n].key = key THEN cs[n].val
          ELSE Absent

\* Context.value / ValueContext.value, on node n of the nodes cs
RECURSIVE value(_, _, _)
value(cs, n, key) ==
  IF n = 0 THEN Absent
  ELSE IF cs[n].kind = "Value" /\ cs[n].key = key THEN cs[n].val
  ELSE value(cs, cs[n].parent, key)

\* Context.canceler, were it to return the Canceler owned nearest to the root
RECURSIVE cancelerOutermost(_, _)
cancelerOutermost(cs, n) ==
  IF n = 0 THEN 0
  ELSE LET up == cancelerOutermost(cs, cs[n].parent)
       IN IF up /= 0 THEN up
          ELSE IF cs[n].kind = "Cancel" THEN cs[n].clr
          ELSE 0

\* Context.canceler / CancelContext.canceler: 0 is null
RECURSIVE canceler(_, _)
canceler(cs, n) ==
  IF n = 0 THEN 0
  ELSE IF cs[n].kind = "Cancel" THEN cs[n].clr
  ELSE canceler(cs, cs[n].parent)

\* Context.canceled
canceled(w, n) ==
  LET c == canceler(w.ctxs, n) IN c /= 0 /\ w.clr[c].canceled

\* getDeadline
getDeadline(cs, n) == value(cs, n, ctxKeyDeadline)

\* withValue, were it to write into its parent when the parent is a value
\* context of the same key
withValueInPlace(w, n, key, val) ==
  IF n /= 0 /\ w.ctxs[n].kind = "Value" /\ w.ctxs[n].key = key
  THEN [w EXCEPT !.ctxs[n].val = val]
  ELSE [w EXCEPT !.ctxs = Append(@, Node("Value", n, key, val, 0))]

\* withValue
withValue(w, n, key, val) ==
  [w EXCEPT !.ctxs = Append(@, Node("Value", n, key, val, 0))]

\* Canceler.create(), with the CancelFunc f returned for it
CancelerCreate(w, isCanceled, f) ==
  [w EXCEPT !.clr = Append(@, NewCanceler(isCanceled)),
            !.timers = Append(@, NoTimer),
            !.funcs = Append(@, f)]

\* withCancel, were it not to look at the parent's Canceler first
withCancelAlways(w, n) ==
  LET p == canceler(w.ctxs, n)
      c == Len(w.clr) + 1
      f == IF p /= 0 THEN [t |-> "wrap", par |-> p] ELSE [t |-> "cfn", par |-> 0]
      w1 == CancelerCreate(w, FALSE, f)
      w2 == IF p /= 0 THEN onCancel(w1, p, Cfn(c)) ELSE w1
  IN [w2 EXCEPT !.ctxs = Append(@, Node("Cancel", n, "", Absent, c)),
                !.ret = Len(w2.ctxs) + 1, !.noop = FALSE]

\* withCancel(ctx): n = 0 is the null parent of Context.cancel().  ret is the
\* context returned; the function returned with it is the CancelFunc of that
\* context's Canceler, unless noop is set: then it is makeNoOp()
withCancel(w, n) ==
  LET p == canceler(w.ctxs, n)
      c == Len(w.clr) + 1
  IN IF p /= 0 /\ w.clr[p].canceled
     THEN [w EXCEPT !.ret = n, !.noop = TRUE]
     ELSE LET f == IF p /= 0 THEN [t |-> "wrap", par |-> p]
                   ELSE [t |-> "cfn", par |-> 0]
              w1 == CancelerCreate(w, FALSE, f)
              w2 == IF p /= 0 THEN onCancel(w1, p, Cfn(c)) ELSE w1
          IN [w2 EXCEPT !.ctxs = Append(@, Node("Cancel", n, "", Absent, c)),
                        !.ret = Len(w2.ctxs) + 1, !.noop = FALSE]

\* withDeadline, were it to take an existing deadline equal to the one asked
\* for as making it redundant too
withDeadlineOrEqual(w, n, deadline, t) ==
  LET p == canceler(w.ctxs, n)
      c == Len(w.clr) + 1
      existing == getDeadline(w.ctxs, n)
  IN IF p /= 0 /\ w.clr[p].canceled
     THEN [w EXCEPT !.ret = n, !.noop = TRUE]
     ELSE IF existing.ty \notin {"undefined", "null"} /\ existing.n <= deadline
     THEN withCancel(w, n)
     ELSE LET v == Len(w.ctxs) + 1
              wv == withValue(w, n, ctxKeyDeadline, Date(deadline))
              wc == [wv EXCEPT !.ctxs = Append(@, Node("Cancel", v, "", Absent, c)),
                               !.ret = v + 1, !.noop = FALSE]
          IN IF deadline < t
             THEN cancel(CancelerCreate(wc, FALSE, [t |-> "cfn", par |-> 0]), c, Undefined)
             ELSE LET f == IF p /= 0 THEN [t |-> "dlwrap", par |-> p]
                           ELSE [t |-> "cac", par |-> 0]
                      w1 == CancelerCreate(wc, FALSE, f)
                      w2 == IF p /= 0 THEN onCancel(w1, p, Cac(c)) ELSE w1
                  IN [w2 EXCEPT !.timers[c] = [armed |-> TRUE, at |-> deadline]]

\* withDeadline, were it to register the new Canceler with the parent before
\* it looks whether the deadline has passed
withDeadlineLinkFirst(w, n, deadline, t) ==
  LET p == canceler(w.ctxs, n)
      c == Len(w.clr) + 1
      existing == getDeadline(w.ctxs, n)
  IN IF p /= 0 /\ w.clr[p].canceled
     THEN [w EXCEPT !.ret = n, !.noop = TRUE]
     ELSE IF existing.ty \notin {"undefined", "null"} /\ existing.n < deadline
     THEN withCancel(w, n)
     ELSE LET v == Len(w.ctxs) + 1
              wv == withValue(w, n, ctxKeyDeadline, Date(deadline))
              wc == [wv EXCEPT !.ctxs = Append(@, Node("Cancel", v, "", Absent, c)),
                               !.ret = v + 1, !.noop = FALSE]
              f == IF p /= 0 THEN [t |-> "dlwrap", par |-> p]
                   ELSE [t |-> "cac", par |-> 0]
              w1 == CancelerCreate(wc, FALSE, f)
              w2 == IF p /= 0 THEN onCancel(w1, p, Cac(c)) ELSE w1
          IN IF deadline < t
             THEN cancel(w2, c, Undefined)
             ELSE [w2 EXCEPT !.timers[c] = [armed |-> TRUE, at |-> deadline]]

\* withDeadline(ctx, deadline) at clock t
withDeadline(w, n, deadline, t) ==
  LET p == canceler(w.ctxs, n)
      c == Len(w.clr) + 1
      existing == getDeadline(w.ctxs, n)
  IN IF p /= 0 /\ w.clr[p].canceled
     THEN [w EXCEPT !.ret = n, !.noop = TRUE]
     ELSE IF existing.ty \notin {"undefined", "null"} /\ existing.n < deadline
     THEN withCancel(w, n)
     ELSE LET v == Len(w.ctxs) + 1
              wv == withValue(w, n, ctxKeyDeadline, Date(deadline))
              wc == [wv EXCEPT !.ctxs = Append(@, Node("Cancel", v, "", Absent, c)),
                               !.ret = v + 1, !.noop = FALSE]
          IN IF deadline < t
             THEN cancel(CancelerCreate(wc, FALSE, [t |-> "cfn", par |-> 0]), c, Undefined)
             ELSE LET f == IF p /= 0 THEN [t |-> "dlwrap", par |-> p]
                           ELSE [t |-> "cac", par |-> 0]
                      w1 == CancelerCreate(wc, FALSE, f)
                      w2 == IF p /= 0 THEN onCancel(w1, p, Cac(c)) ELSE w1
                  IN [w2 EXCEPT !.timers[c] = [armed |-> TRUE, at |-> deadline]]

(***************************************************************************)
(* The state machine                                                       *)
(***************************************************************************)
\* The state at the start of a step, as the record the operations work on
World ==
  [clr |-> clr, timers |-> timers, funcs |-> funcs, ctxs |-> ctxs,
   trace |-> <<>>, exc |-> FALSE, ret |-> 0, noop |-> FALSE, now |-> now]

\* What a step records of its call: op, the Canceler or context c it was
\* made on, the listener k and the reason r passed; whether the
\* Canceler was canceled / draining when the call was made (was, busy); the
\* context returned (ret), whether a no-op function was returned (noop) and
\* whether the call threw; d is the deadline asked of withDeadline / withTimeout,
\* key and val the key and the value passed to withValue / Context.value
Call(op, c, k, r) ==
  [op |-> op, c |-> c, k |-> k, r |-> r, d |-> 0, key |-> "", val |-> Absent,
   was |-> FALSE, busy |-> FALSE, ret |-> 0, noop |-> FALSE, threw |-> FALSE]

Commit(w, call) ==
  /\ clr' = w.clr
  /\ timers' = w.timers
  /\ funcs' = w.funcs
  /\ ctxs' = w.ctxs
  /\ trace' = w.trace
  /\ last' = [call EXCEPT !.ret = w.ret, !.noop = w.noop, !.threw = w.exc]

OnClr(call, c) ==
  [call EXCEPT !.was = clr[c].canceled, !.busy = clr[c].canceling]

Pending(c) == Cardinality({cb \in Range(clr[c].callbacks) : cb.t = "user"})

\* Whether what a derivation built stays within the bounds of the model
Fits(w, max) == Len(w.ctxs) <= max /\ Len(w.clr) <= MaxClr

\* Whether a derivation from context n can stay within the bounds at all: it
\* returns n itself, or makes one context and one Canceler at least
MayFit(n, max) == canceled(World, n) \/ (Len(ctxs) < max /\ Len(clr) < MaxClr)

\* The timer armed for Canceler c is due: its delay has elapsed
Due(c) == c \in 1..Len(clr) /\ timers[c].armed /\ timers[c].at <= now

\* The contexts a client holds: every node but the value node withDeadline
\* puts under the context it returns, which it hands to no one
Held(n) ==
  /\ n \in 1..Len(ctxs)
  /\ ~(ctxs[n].kind = "Value" /\ ctxs[n].key = ctxKeyDeadline)

Init ==
  /\ clr = <<>>
  /\ timers = <<>>
  /\ funcs = <<>>
  /\ ctxs = <<Node("Base", 0, "", Absent, 0)>>
  /\ now = 0
  /\ last = Call("init", 0, 0, Undefined)
  /\ trace = <<>>

\* clr.onCancel(k)
OnCancel(c, k, max) ==
  /\ c \in 1..Len(clr)
  /\ \/ clr[c].canceled /\ ~clr[c].canceling
     \/ User(k) \in Range(clr[c].callbacks)
     \/ Pending(c) < max
  /\ Commit(onCancel(World, c, User(k)), OnClr(Call("onCancel", c, k, Undefined), c))
  /\ UNCHANGED now

\* clr.off(k)
Off(c, k) ==
  /\ c \in 1..Len(clr)
  /\ Commit(off(World, c, User(k)), OnClr(Call("off", c, k, Undefined), c))
  /\ UNCHANGED now

\* cancel(r), cancel being the CancelFunc returned along with Canceler c
Cancel(c, r) ==
  /\ c \in 1..Len(clr)
  /\ Commit(cancelFunc(World, c, r), OnClr(Call("cancel", c, 0, r), c))
  /\ UNCHANGED now

\* withValue(n, key, val), with at most max context nodes
WithValue(n, key, val, max) ==
  /\ Held(n)
  /\ Len(ctxs) < max
  /\ Commit([withValue(World, n, key, val) EXCEPT !.ret = Len(ctxs) + 1],
            [Call("withValue", n, 0, Undefined) EXCEPT !.key = key, !.val = val])
  /\ UNCHANGED now

\* withCancel(n), with at most max context nodes; n = 0 is Context.cancel()
WithCancel(n, max) ==
  /\ n = 0 \/ Held(n)
  /\ MayFit(n, max)
  /\ Commit(withCancel(World, n), Call("withCancel", n, 0, Undefined))
  /\ UNCHANGED now

\* withDeadline(n, new Date(d)), with at most max context nodes
WithDeadline(n, d, max) ==
  /\ Held(n)
  /\ MayFit(n, max)
  /\ Fits(withDeadline(World, n, d, now), max)
  /\ Commit(withDeadline(World, n, d, now),
            [Call("withDeadline", n, 0, Undefined) EXCEPT !.d = d])
  /\ UNCHANGED now

\* withTimeout(n, ms), with at most max context nodes
WithTimeout(n, ms, max) ==
  /\ Held(n)
  /\ now + ms <= MaxTime
  /\ MayFit(n, max)
  /\ Fits(withDeadline(World, n, now + ms, now), max)
  /\ Commit(withDeadline(World, n, now + ms, now),
            [Call("withTimeout", n, 0, Undefined) EXCEPT !.d = now + ms])
  /\ UNCHANGED now

\* The event loop runs the callback of the timer armed for Canceler c
TimerElapse(c) ==
  /\ Due(c)
  /\ Commit(cancelFunc(clearTimeout(World, c), c, Undefined),
            OnClr(Call("timer", c, 0, Undefined), c))
  /\ UNCHANGED now

\* The function that does nothing, which the last call returned, is called
NoOp(r) ==
  /\ last.noop
  /\ Commit(World, Call("noop", last.ret, 0, r))
  /\ UNCHANGED now

\* Time passes
Tick ==
  /\ now < MaxTime
  /\ now' = now + 1
  /\ last' = Call("tick", 0, 0, Undefined)
  /\ trace' = <<>>
  /\ UNCHANGED <<clr, timers, funcs, ctxs>>

\* The listeners registered on the Cancelers of context nodes
TreeCbs == {5, 6}

\* The reasons passed to the CancelFunc of a context
TreeReasons == {ClientDeadlineError}

\* The clients of the context tree: contexts are derived and canceled,
\* listeners registered on their Cancelers, timers elapse
Next ==
  \/ \E c \in 1..MaxClr, k \in TreeCbs : OnCancel(c, k, MaxListen)
  \/ \E c \in 1..MaxClr, r \in TreeReasons : Cancel(c, r)
  \/ \E n \in 1..MaxCtx, key \in Keys, val \in Vals : WithValue(n, key, val, MaxCtx)
  \/ \E n \in 0..MaxCtx : WithCancel(n, MaxCtx)
  \/ \E n \in 1..MaxCtx, d \in 0..MaxTime : WithDeadline(n, d, MaxCtx)
  \/ \E n \in 1..MaxCtx, ms \in 0..1 : WithTimeout(n, ms, MaxCtx)
  \/ \E c \in 1..MaxClr : TimerElapse(c)
  \/ \E r \in TreeReasons : NoOp(r)
  \/ Tick

Spec == Init /\ [][Next]_vars

\* Deadline contexts under the event loop: contexts with deadlines are
\* derived, listened to and canceled, time passes, and a timer that is due
\* is run (setTimeout: the event loop runs the callback of every timer that
\* stays due, and the clock does not stop)
NextLive ==
  \/ \E c \in 1..MaxClr, k \in TreeCbs : OnCancel(c, k, MaxListen)
  \/ \E c \in 1..MaxClr, r \in TreeReasons : Cancel(c, r)
  \/ \E n \in 1..MaxLiveCtx, d \in 0..MaxTime : WithDeadline(n, d, MaxLiveCtx)
  \/ \E n \in 1..MaxLiveCtx, ms \in 0..1 : WithTimeout(n, ms, MaxLiveCtx)
  \/ \E c \in 1..MaxClr : TimerElapse(c)
  \/ Tick

\* Fairness: the clock advances (WF_vars(Tick)), and no timer stays due for
\* ever.  TimerElapse(c) is enabled exactly when Due(c) holds and leaves the
\* timer disarmed, so []<>~Due(c) is WF_vars(TimerElapse(c))
SpecLive ==
  /\ Init
  /\ [][NextLive]_vars
  /\ WF_vars(Tick)
  /\ \A c \in 1..MaxClr : []<>~Due(c)

\* One standalone Canceler and its clients: the state after
\* const [clr, cancel] = Canceler.create(b)
InitClr ==
  \E b \in BOOLEAN :
    /\ clr = <<NewCanceler(b)>>
    /\ timers = <<NoTimer>>
    /\ funcs = <<[t |-> "cfn", par |-> 0]>>
    /\ ctxs = <<Node("Base", 0, "", Absent, 0)>>
    /\ now = 0
    /\ last = Call("create", 1, 0, Undefined)
    /\ trace = <<>>

NextClr ==
  \/ \E c \in 1..MaxClr, k \in UserCbs : OnCancel(c, k, MaxPending)
  \/ \E c \in 1..MaxClr, k \in UserCbs : Off(c, k)
  \/ \E c \in 1..MaxClr, r \in Reasons : Cancel(c, r)

SpecClr == InitClr /\ [][NextClr]_vars

(***************************************************************************)
(* Reading the trace of a step                                             *)
(***************************************************************************)
\* The positions of the trace tr holding an event ev of Canceler c
Evs(tr, ev, c) == {i \in 1..Len(tr) : tr[i].ev = ev /\ tr[i].clr = c}

\* The positions at which Canceler c's drain loop called a callback
DrainCalls(tr, c) == {i \in Evs(tr, "call", c) : ~tr[i].imm}

\* How many events ev of Canceler c the trace holds for callback cb
Count(tr, ev, c, cb) == Cardinality({i \in Evs(tr, ev, c) : tr[i].cb = cb})

Max(S) == CHOOSE x \in S : \A y \in S : y <= x

\* The registrations of callback tr[i].cb on Canceler c before position i
AddsBefore(tr, c, i) == {a \in Evs(tr, "add", c) : a < i /\ tr[a].cb = tr[i].cb}

\* Whether the callback called at position i was registered at all: it was
\* pending in q, the listener set before the step, or added during the step
Registered(q, tr, c, i) == tr[i].cb \in Range(q) \/ AddsBefore(tr, c, i) /= {}

\* When the callback called at position i was registered: its place in q, or
\* behind all of q in the order of the registrations made during the step
RegPos(q, tr, c, i) ==
  IF AddsBefore(tr, c, i) /= {} THEN Len(q) + Max(AddsBefore(tr, c, i))
  ELSE CHOOSE p \in 1..Len(q) : q[p] = tr[i].cb

\* A #cancel of Canceler c ran to completion in this step
Fired(c) == c \in 1..Len(clr) /\ ~clr[c].canceled /\ clr'[c].canceled /\ ~clr'[c].canceling

(***************************************************************************)
(* C1.  Callbacks of one Canceler are invoked in first-registered-first-   *)
(* fired order: in every step, the callbacks a Canceler's drain invokes    *)
(* were all registered, and are invoked in the order of their registration *)
(* (those pending before the step in the order they were registered, then  *)
(* those registered while the drain was running, in that order).           *)
(***************************************************************************)
C1_FifoStep ==
  \A c \in 1..Len(clr) :
    \A i, j \in DrainCalls(trace', c) :
      /\ Registered(clr[c].callbacks, trace', c, i)
      /\ i < j => RegPos(clr[c].callbacks, trace', c, i) < RegPos(clr[c].callbacks, trace', c, j)

C1_Fifo == [][C1_FifoStep]_vars

\* A cancel call that found two listeners pending, the first of which
\* registered a third while the drain was running: three calls, in order
C1_Witness ==
  /\ last.op = "cancel"
  /\ ~last.was
  /\ Cardinality(DrainCalls(trace, last.c)) >= 3
  /\ \E a \in Evs(trace, "add", last.c) :
       /\ \E i \in DrainCalls(trace, last.c) : i < a
       /\ \E i, j \in DrainCalls(trace, last.c) :
            a < i /\ i < j /\ trace[j].cb = trace[a].cb /\ trace[i].cb /= trace[a].cb

(***************************************************************************)
(* C2.  Cancel is idempotent: a call of a CancelFunc whose Canceler is     *)
(* already canceled (made after the first call returned or threw, with any *)
(* reason) changes no Canceler and invokes no callback; and in whatever a  *)
(* step does, a canceled Canceler stays canceled with the err it has, and  *)
(* every callback a drain invokes (also after a listener called the        *)
(* CancelFunc again from inside the drain) is invoked once per             *)
(* registration and receives the err the first call captured.              *)
(***************************************************************************)
C2_IdempotentStep ==
  /\ (last'.op = "cancel" /\ last'.was) =>
        clr' = clr /\ timers' = timers /\ trace' = <<>> /\ ~last'.threw
  /\ \A c \in 1..Len(clr) :
       /\ clr[c].canceled => clr'[c].canceled /\ clr'[c].err = clr[c].err
       /\ \A i \in DrainCalls(trace', c) :
            /\ trace'[i].err = clr'[c].err
            /\ \A j \in DrainCalls(trace', c) :
                 (i < j /\ trace'[i].cb = trace'[j].cb) =>
                    \E a \in AddsBefore(trace', c, j) : i < a

C2_Idempotent == [][C2_IdempotentStep]_vars

\* A second cancel call, with another reason than the one that fixed err
C2_Witness ==
  /\ last.op = "cancel"
  /\ last.was
  /\ ~last.busy
  /\ last.r = StrReason
  /\ clr[last.c].err.ty = "object"
  /\ clr[last.c].err.msg /= "rejected"

(***************************************************************************)
(* C3.  By the time a cancel call returns, every callback that was pending *)
(* on the Canceler when it was called, plus every callback registered on   *)
(* it during the drain, has been invoked exactly once (once per            *)
(* registration, unless unregistered first) and with the same cause; none  *)
(* is left pending.                                                        *)
(***************************************************************************)
C3_DrainedStep ==
  \A c \in 1..Len(clr) :
    Fired(c) =>
      /\ clr'[c].callbacks = <<>>
      /\ clr'[c].err /= Null
      /\ \A i \in Evs(trace', "call", c) : trace'[i].err = clr'[c].err
      /\ \A cb \in Range(clr[c].callbacks) \cup {trace'[a].cb : a \in Evs(trace', "add", c)} :
           Count(trace', "call", c, cb) + Count(trace', "del", c, cb)
             = Count(trace', "add", c, cb) + (IF cb \in Range(clr[c].callbacks) THEN 1 ELSE 0)

C4_ImmediateStep ==
  (last'.op = "onCancel" /\ last'.was /\ ~last'.busy) =>
     /\ trace' /= <<>>
     /\ trace'[1] = Event("call", last'.c, User(last'.k), clr[last'.c].err, TRUE)
     /\ Count(trace', "call", last'.c, User(last'.k)) = 1
     /\ Count(trace', "add", last'.c, User(last'.k)) = 0
     /\ clr'[last'.c].callbacks = clr[last'.c].callbacks
     /\ User(last'.k) \notin Range(clr'[last'.c].callbacks)

C4_Immediate == [][C4_ImmediateStep]_vars

\* onCancel on a Canceler that a cancel call has fired
C4_Witness ==
  /\ last.op = "onCancel"
  /\ last.was
  /\ ~last.busy
  /\ CanceledErrorIs(clr[last.c].err)
  /\ trace /= <<>>
  /\ trace[1].ev = "call"
  /\ trace[1].imm

(***************************************************************************)
(* Reading the context tree                                                *)
(***************************************************************************)
\* The context node that owns Canceler c: 0 for a standalone Canceler
OwnerNode(c) ==
  IF \E n \in 1..Len(ctxs) : ctxs[n].kind = "Cancel" /\ ctxs[n].clr = c
  THEN CHOOSE n \in 1..Len(ctxs) : ctxs[n].kind = "Cancel" /\ ctxs[n].clr = c
  ELSE 0

\* Whether node a lies on the path from node n to the root, n excluded
RECURSIVE IsAncestor(_, _)
IsAncestor(a, n) ==
  IF n = 0 \/ a = 0 THEN FALSE
  ELSE ctxs[n].parent = a \/ IsAncestor(a, ctxs[n].parent)

\* The Cancelers of the cancelable descendants of the context that owns c
Desc(c) == {d \in 1..Len(clr) : IsAncestor(OwnerNode(c), OwnerNode(d))}

\* The calls of the trace that cascade into Canceler d through cb
CascadeInto(tr, d, cb) == {i \in 1..Len(tr) : tr[i].ev = "call" /\ tr[i].cb = cb}

(***************************************************************************)
(* C5.  Cascade is synchronous and complete: when the cancel function of a *)
(* cancelable context P, called on P not yet canceled, returns, every      *)
(* cancelable descendant of P is canceled and its listeners have been      *)
(* invoked (none is left pending).                                         *)
(***************************************************************************)
C5_CascadeComplete ==
  (last.op = "cancel" /\ ~last.was /\ ~last.threw) =>
     \A d \in Desc(last.c) \cup {last.c} :
        clr[d].canceled /\ clr[d].callbacks = <<>>

\* Whether an exception has left a Canceler canceled with its drain unfinished
Stuck == \E c \in 1..Len(clr) : clr[c].canceled /\ clr[c].canceling

\* C5 holds of the states in which no exception has cut a drain short
CascadeCompleteUnlessStuck == Stuck \/ C5_CascadeComplete

(***************************************************************************)
(* C6.  Cancellation never bubbles up or sideways: a call of the cancel    *)
(* function of context A cancels A, and every Canceler that is neither A's *)
(* nor a descendant's (the parent P, a sibling B, the ancestors of P)      *)
(* keeps its canceled flag and its err.                                    *)
(***************************************************************************)
C6_NoBubbleStep ==
  last'.op = "cancel" =>
     /\ clr'[last'.c].canceled
     /\ \A x \in 1..Len(clr) :
          x \notin Desc(last'.c) \cup {last'.c} =>
             /\ clr'[x].canceled = clr[x].canceled
             /\ clr'[x].canceling = clr[x].canceling
             /\ clr'[x].err = clr[x].err

C6_NoBubble == [][C6_NoBubbleStep]_vars

\* Child A of P was just canceled by its own cancel function, while P and
\* A's sibling B are not canceled
C6_Witness ==
  /\ last.op = "cancel"
  /\ ~last.was
  /\ clr[last.c].canceled
  /\ funcs[last.c].par /= 0
  /\ ~clr[funcs[last.c].par].canceled
  /\ \E b \in 1..Len(clr) :
       /\ b /= last.c
       /\ funcs[b].par = funcs[last.c].par
       /\ ~clr[b].canceled

(***************************************************************************)
(* C7.  A cascade carries the parent's cause forward unchanged: whenever a *)
(* Canceler's drain calls the cancel callback of a withCancel child, the   *)
(* child ends with the very err of the parent; so down a chain of          *)
(* withCancel children every Canceler reached holds the err of the context *)
(* that was canceled, a DeadlineError staying a DeadlineError.             *)
(***************************************************************************)
\* The Canceler at the top of the chain of cascade calls that reached d
RECURSIVE ChainTop(_, _)
ChainTop(tr, d) ==
  IF CascadeInto(tr, d, Cfn(d)) = {} THEN d
  ELSE ChainTop(tr, tr[CHOOSE i \in CascadeInto(tr, d, Cfn(d)) : TRUE].clr)

C7_CauseCarried ==
  \A d \in 1..Len(clr) :
    \A i \in CascadeInto(trace, d, Cfn(d)) :
       /\ clr[d].canceled
       /\ clr[d].err = trace[i].err
       /\ clr[d].err = clr[trace[i].clr].err
       /\ clr[d].err = clr[ChainTop(trace, d)].err
       /\ DeadlineErrorIs(clr[ChainTop(trace, d)].err) => DeadlineErrorIs(clr[d].err)

\* A root canceled with a DeadlineError whose cascade reached a grandchild
C7_Witness ==
  /\ last.op = "cancel"
  /\ clr[last.c].err = ClientDeadlineError
  /\ \E d, e \in 1..Len(clr) :
       /\ d /= e
       /\ \E i \in CascadeInto(trace, d, Cfn(d)) : trace[i].clr = last.c
       /\ \E j \in CascadeInto(trace, e, Cfn(e)) : trace[j].clr = d
       /\ clr[e].err = ClientDeadlineError

(***************************************************************************)
(* C8.  When a context created by withDeadline or withTimeout is canceled  *)
(* by cascade from its parent before its timer elapses, the cause its      *)
(* Canceler captures is the parent's cause, the same value the parent's    *)
(* Canceler holds.                                                         *)
(***************************************************************************)
C8_DeadlineCascadeCause ==
  \A d \in 1..Len(clr) :
    \A i \in CascadeInto(trace, d, Cac(d)) :
       clr[d].canceled /\ clr[d].err = clr[trace[i].clr].err

(***************************************************************************)
(* C9.  When the timer armed by withDeadline or withTimeout elapses on a   *)
(* context that is not yet canceled, the context is canceled with a cause  *)
(* that satisfies DeadlineError.is, and every listener receives it.        *)
(***************************************************************************)
C9_TimerCause ==
  (last.op = "timer" /\ ~last.was) =>
     /\ clr[last.c].canceled
     /\ DeadlineErrorIs(clr[last.c].err)
     /\ \A i \in Evs(trace, "call", last.c) : DeadlineErrorIs(trace[i].err)

(***************************************************************************)
(* C10.  withDeadline called with a deadline already in the past, on a     *)
(* parent that is not canceled, returns a context that is already          *)
(* canceled, whose canceler.err satisfies DeadlineError.is, with no timer  *)
(* armed and no listener added to the parent.                              *)
(***************************************************************************)
\* The last step was withDeadline / withTimeout and made a new deadline
\* context (a value node holding the deadline under a new cancel node)
MadeDeadline ==
  /\ last.op \in {"withDeadline", "withTimeout"}
  /\ ~last.noop
  /\ last.ret = Len(ctxs)
  /\ ctxs[ctxs[last.ret].parent].kind = "Value"
  /\ ctxs[ctxs[last.ret].parent].key = ctxKeyDeadline
  /\ ctxs[ctxs[last.ret].parent].parent = last.c

C10_PastDeadline ==
  (MadeDeadline /\ ctxs[ctxs[last.ret].parent].val.n < now) =>
     /\ clr[ctxs[last.ret].clr].canceled
     /\ DeadlineErrorIs(clr[ctxs[last.ret].clr].err)
     /\ ~timers[ctxs[last.ret].clr].armed
     /\ \A i \in 1..Len(trace) : trace[i].ev /= "add"

(***************************************************************************)
(* C11.  Calling the cancel function returned by withDeadline or           *)
(* withTimeout directly, before the timer elapses, cancels the context     *)
(* with a plain cancellation cause (CanceledError.is holds of err,         *)
(* DeadlineError.is does not) and clears the timer; from then on err       *)
(* never changes and no timer is armed for the context again, so this      *)
(* stays so after the original deadline passes.                            *)
(***************************************************************************)
\* Canceler c belongs to a deadline context that armed a timer
DeadlineClr(c) == funcs[c].t \in {"cac", "dlwrap"}

C11_DirectPlainStep ==
  \A c \in 1..Len(clr) :
    DeadlineClr(c) =>
      /\ (last'.op = "cancel" /\ last'.c = c /\ ~clr[c].canceled /\ timers[c].armed) =>
            /\ clr'[c].canceled
            /\ CanceledErrorIs(clr'[c].err)
            /\ ~DeadlineErrorIs(clr'[c].err)
            /\ ~timers'[c].armed
      /\ (clr[c].canceled /\ ~timers[c].armed) =>
            /\ clr'[c].err = clr[c].err
            /\ ~timers'[c].armed

C11_DirectPlain == [][C11_DirectPlainStep]_vars

\* A deadline context canceled by its own cancel function, called with a
\* DeadlineError as reason while its deadline is still to come
C11_Witness ==
  /\ last.op = "cancel"
  /\ ~last.was
  /\ last.r = ClientDeadlineError
  /\ DeadlineClr(last.c)
  /\ now < timers[last.c].at
  /\ clr[last.c].canceled
  /\ ~DeadlineErrorIs(clr[last.c].err)

(***************************************************************************)
(* C12.  Every context returned by withDeadline(ctx, d) or                 *)
(* withTimeout(ctx, ms) is eventually canceled, once time d has passed and *)
(* the timers that are due have run: whether it armed its own timer or was *)
(* degraded to a plain cancel child under an earlier deadline.             *)
(***************************************************************************)
C12_EventuallyCanceled ==
  \A n \in 1..MaxLiveCtx :
    (last.op \in {"withDeadline", "withTimeout"} /\ last.ret = n)
      ~> (n <= Len(ctxs) /\ canceled(World, n))

(***************************************************************************)
(* C13.  Canceling a child through its own cancel function removes the     *)
(* child's cascade callback from the parent Canceler: the listener count   *)
(* of a parent that is not canceled drops by exactly one (the callback     *)
(* removed being the child's) and the parent stays not canceled; deriving  *)
(* a child raises the count by exactly one, so that a create-child /       *)
(* cancel-child cycle returns the count to where it started.  For          *)
(* withCancel, withDeadline and withTimeout children.                      *)
(***************************************************************************)
\* The callback that Canceler c's context registered on its parent's Canceler
CascadeCb(c) == IF funcs[c].t = "wrap" THEN Cfn(c) ELSE Cac(c)

C13_UnregisterStep ==
  /\ (/\ last'.op = "cancel"
      /\ ~last'.was
      /\ funcs[last'.c].par /= 0
      /\ ~clr[funcs[last'.c].par].canceled) =>
        /\ Len(clr'[funcs[last'.c].par].callbacks)
              = Len(clr[funcs[last'.c].par].callbacks) - 1
        /\ clr'[funcs[last'.c].par].callbacks
              = Remove(clr[funcs[last'.c].par].callbacks, CascadeCb(last'.c))
        /\ ~clr'[funcs[last'.c].par].canceled
  /\ (/\ last'.op \in {"withCancel", "withDeadline", "withTimeout"}
      /\ Len(clr') > Len(clr)
      /\ funcs'[Len(clr')].par /= 0) =>
        Len(clr'[funcs'[Len(clr')].par].callbacks)
          = Len(clr[funcs'[Len(clr')].par].callbacks) + 1

C13_Unregister == [][C13_UnregisterStep]_vars

\* A deadline child was just canceled by its own cancel function; its
\* parent, not canceled, is back to the one listener it had before the child
C13_Witness ==
  /\ last.op = "cancel"
  /\ ~last.was
  /\ funcs[last.c].t = "dlwrap"
  /\ ~clr[funcs[last.c].par].canceled
  /\ Len(clr[funcs[last.c].par].callbacks) = 1
  /\ clr[funcs[last.c].par].callbacks[1].t = "user"

(***************************************************************************)
(* C14.  If the parent context's canceler is already canceled (including   *)
(* while it is still draining), withCancel and withDeadline return the     *)
(* parent context itself together with a cancel function that does         *)
(* nothing: no Canceler is created, no listener is added to the parent, no *)
(* timer is armed, and calling the returned function changes no state.     *)
(***************************************************************************)
\* Nothing but the record of the call changes in the step
SameObjects ==
  /\ clr' = clr
  /\ timers' = timers
  /\ funcs' = funcs
  /\ ctxs' = ctxs

C14_ShortCircuitStep ==
  /\ (/\ last'.op \in {"withCancel", "withDeadline", "withTimeout"}
      /\ last'.c /= 0
      /\ canceled(World, last'.c)) =>
        /\ last'.ret = last'.c
        /\ last'.noop
        /\ ~last'.threw
        /\ SameObjects
        /\ trace' = <<>>
  /\ last'.op = "noop" => (SameObjects /\ trace' = <<>> /\ ~last'.threw)
  /\ \A i \in 1..Len(trace') : trace'[i].ev /= "made"

C14_ShortCircuit == [][C14_ShortCircuitStep]_vars

\* A listener called by the drain of its context's Canceler derived from
\* that context with withCancel and with withDeadline, and got the context
\* itself both times
C14_Witness ==
  /\ last.op = "cancel"
  /\ ~last.was
  /\ \E i \in 1..Len(trace) :
       /\ i + 2 <= Len(trace)
       /\ trace[i].ev = "call" /\ trace[i].cb = User(6) /\ ~trace[i].imm
       /\ trace[i + 1].ev = "same"
       /\ trace[i + 2].ev = "same"

(***************************************************************************)
(* C15.  If the chain of ctx already carries a deadline value that is      *)
(* earlier than or equal to the requested deadline, withDeadline degrades  *)
(* to plain withCancel(ctx): it arms no timer, adds no deadline value      *)
(* node, and the child can only be canceled by cascade or by its own       *)
(* cancel function.                                                        *)
(***************************************************************************)
\* The last step was withDeadline / withTimeout on a context not canceled
AskedDeadline == last.op \in {"withDeadline", "withTimeout"} /\ ~last.noop

\* The context returned is a plain cancel child of the context it was derived
\* from: no value node in between, the same deadline in sight, no timer
Degraded ==
  /\ last.ret = Len(ctxs)
  /\ ctxs[last.ret].kind = "Cancel"
  /\ ctxs[last.ret].parent = last.c
  /\ getDeadline(ctxs, last.ret) = getDeadline(ctxs, last.c)
  /\ funcs[ctxs[last.ret].clr].t = "wrap"
  /\ ~timers[ctxs[last.ret].clr].armed

C16_NoOrphanTimer ==
  /\ \A c \in 1..Len(clr) : clr[c].canceled => ~timers[c].armed
  /\ last.op = "timer" => ~last.was

\* A deadline context canceled by the cascade from its parent while its
\* deadline was still to come
C16_Witness ==
  /\ last.op = "cancel"
  /\ \E d \in 1..Len(clr) :
       /\ CascadeInto(trace, d, Cac(d)) /= {}
       /\ clr[d].canceled
       /\ now < timers[d].at
       /\ ~timers[d].armed

(***************************************************************************)
(* C17.  Calling the cancel function returned by withCancel, withDeadline  *)
(* or withTimeout after the child has already been canceled (by cascade,   *)
(* by the timer or by an earlier direct call) is a no-op: it raises no     *)
(* error, changes neither the child's state or cause nor the parent's      *)
(* canceled state or listener set, and invokes no callback.                *)
(***************************************************************************)
C17_LateCancelStep ==
  (last'.op = "cancel" /\ last'.was) =>
     /\ ~last'.threw
     /\ SameObjects
     /\ trace' = <<>>

C17_LateCancel == [][C17_LateCancelStep]_vars

\* The cancel function of a child that is already canceled was called with a
\* reason, under a parent that is not canceled and has a listener pending
C17_Witness ==
  /\ last.op = "cancel"
  /\ last.was
  /\ last.r = ClientDeadlineError
  /\ funcs[last.c].par /= 0
  /\ ~clr[funcs[last.c].par].canceled
  /\ clr[funcs[last.c].par].callbacks /= <<>>
  /\ clr[last.c].err /= ClientDeadlineError

(***************************************************************************)
(* C18.  Cancellation is monotonic and final: once a Canceler's canceled   *)
(* is true it is true in every later state, and once a context's canceled  *)
(* is true it stays true for ever; no operation resets it.                 *)
(***************************************************************************)
C18_MonotonicStep ==
  /\ \A c \in 1..Len(clr) : clr[c].canceled => clr'[c].canceled
  /\ \A n \in 1..Len(ctxs) :
       (canceler(ctxs, n) /= 0 /\ clr[canceler(ctxs, n)].canceled) =>
          /\ canceler(ctxs', n) = canceler(ctxs, n)
          /\ clr'[canceler(ctxs', n)].canceled

C18_Monotonic == [][C18_MonotonicStep]_vars

\* A value context below a cancel context that was canceled in an earlier
\* step is still canceled after a later call on the Canceler
C18_Witness ==
  /\ last.op = "onCancel"
  /\ last.was
  /\ \E n \in 1..Len(ctxs) :
       /\ ctxs[n].kind = "Value"
       /\ canceler(ctxs, n) = last.c
       /\ canceled(World, n)

(***************************************************************************)
(* C19.  A Canceler's cause is set exactly once, at the moment of the      *)
(* first fire: err is null in every state before the first cancel call,    *)
(* is set by that call before any callback runs, and is the identical      *)
(* value in every later state and for every callback invocation.           *)
(***************************************************************************)
C19_CauseOnceStep ==
  \A c \in 1..Len(clr) :
    \* null before the first cancel call
    /\ ~clr[c].canceled => clr[c].err = Null
    \* set by the first cancel call
    /\ (last'.op = "cancel" /\ last'.c = c /\ ~last'.was) => clr'[c].err /= Null
    \* the identical value in every later state
    /\ clr[c].err /= Null => clr'[c].err = clr[c].err
    \* and for every callback invocation
    /\ \A i \in Evs(trace', "call", c) : trace'[i].err = clr'[c].err

C19_CauseOnce == [][C19_CauseOnceStep]_vars

(***************************************************************************)
(* C20.  For every context node in every reachable state, canceler is the  *)
(* Canceler owned by the nearest node on the path to the root that owns    *)
(* one (null if none), and canceled equals that Canceler's canceled flag   *)
(* (false when canceler is null).                                          *)
(***************************************************************************)
\* The nodes on the path from node n to the root, n included, that own a
\* Canceler
Owners(n) ==
  {m \in 1..Len(ctxs) : (m = n \/ IsAncestor(m, n)) /\ ctxs[m].kind = "Cancel"}

\* The owner nearest to n: every other owner on the path lies above it
NearestOwner(n) ==
  IF Owners(n) = {} THEN 0
  ELSE CHOOSE m \in Owners(n) : \A o \in Owners(n) : o = m \/ IsAncestor(o, m)

C20_NearestOwner ==
  \A n \in 1..Len(ctxs) :
    /\ canceler(ctxs, n) =
         (IF NearestOwner(n) = 0 THEN 0 ELSE ctxs[NearestOwner(n)].clr)
    /\ canceled(World, n) =
         (NearestOwner(n) /= 0 /\ clr[ctxs[NearestOwner(n)].clr].canceled)

\* A value context below two nested cancel contexts: the inner one is
\* canceled and the outer one is not, and the value context is canceled
C20_Witness ==
  \E n \in 1..Len(ctxs) :
    /\ ctxs[n].kind = "Value"
    /\ canceled(World, n)
    /\ \E o \in Owners(n) : o /= NearestOwner(n) /\ ~clr[ctxs[o].clr].canceled

(***************************************************************************)
(* Values.  The clients of the value chain: they write values through the  *)
(* function withValue, the method Context.withValue and the factory        *)
(* Context.value, derive cancel and deadline contexts, cancel them, and    *)
(* may pass a context of their own (an implementation of IContext) to the  *)
(* library.                                                                *)
(***************************************************************************)
\* The key null (or undefined): arg1 == null
NullKey == "null"

\* The keys a client makes: the strings 'x' and 'Deadline'
ClientKeys == {"'x'", "'Deadline'"}

\* The value null
NullVal == [ty |-> "null", n |-> 0]

ClientVals ==
  {[ty |-> "number", n |-> 1], [ty |-> "number", n |-> 11], NullVal}

\* An IContext of the client's own: value(key) notes the key it is asked
\* for and returns undefined, canceler is null
ClientNode == Node("Client", 0, "", Absent, 0)

\* The client's IContext has been asked for ctxKeyDeadline: getDeadline calls
\* ctx.value(ctxKeyDeadline), which the contexts between pass up to the root
SeenDeadlineKey ==
  \E n \in 1..Len(ctxs), m \in 1..Len(ctxs) :
    /\ ctxs[n].key = ctxKeyDeadline
    /\ ctxs[m].kind = "Client"
    /\ IsAncestor(m, n)

\* The keys a client can pass
KnownKeys == ClientKeys \cup (IF SeenDeadlineKey THEN {ctxKeyDeadline} ELSE {})

\* const ctx = { value(key) {...}, canceler: null, canceled: false }, with at
\* most max context nodes
ClientContext(max) ==
  /\ Len(ctxs) < max
  /\ \A n \in 1..Len(ctxs) : ctxs[n].kind /= "Client"
  /\ Commit([[World EXCEPT !.ctxs = Append(@, ClientNode)] EXCEPT !.ret = Len(ctxs) + 1],
            Call("client", 0, 0, Undefined))
  /\ UNCHANGED now

\* ctx.withValue(key, val), the method of Context, on node n
CtxWithValue(n, key, val) ==
  /\ Held(n)
  /\ ctxs[n].kind /= "Client"
  /\ Len(ctxs) < MaxCtx
  /\ Commit(IF key = NullKey THEN [World EXCEPT !.exc = TRUE]
            ELSE [withValue(World, n, key, val) EXCEPT !.ret = Len(ctxs) + 1],
            [Call("ctx.withValue", n, 0, Undefined) EXCEPT !.key = key, !.val = val])
  /\ UNCHANGED now

\* Context.value(key, val), the factory of a root context
ContextValue(key, val) ==
  /\ Len(ctxs) < MaxCtx
  /\ Commit(IF key = NullKey THEN [World EXCEPT !.exc = TRUE]
            ELSE [withValue(World, 0, key, val) EXCEPT !.ret = Len(ctxs) + 1],
            [Call("Context.value", 0, 0, Undefined) EXCEPT !.key = key, !.val = val])
  /\ UNCHANGED now

NextVal ==
  \/ ClientContext(MaxCtx)
  \/ \E n \in 1..MaxCtx, key \in KnownKeys \cup {NullKey}, val \in ClientVals :
       WithValue(n, key, val, MaxCtx)
  \/ \E n \in 1..MaxCtx, key \in KnownKeys \cup {NullKey}, val \in ClientVals :
       CtxWithValue(n, key, val)
  \/ \E key \in KnownKeys \cup {NullKey}, val \in ClientVals : ContextValue(key, val)
  \/ \E n \in 1..MaxCtx : WithCancel(n, MaxCtx)
  \/ \E n \in 1..MaxCtx, d \in 0..MaxTime : WithDeadline(n, d, MaxCtx)
  \/ \E n \in 1..MaxCtx, ms \in 0..1 : WithTimeout(n, ms, MaxCtx)
  \/ \E c \in 1..MaxClr, r \in TreeReasons : Cancel(c, r)

SpecVal == Init /\ [][NextVal]_vars

\* Every key a value can be asked for
AllKeys == ClientKeys \cup {NullKey, ctxKeyDeadline}

\* The nodes on the path from node n to the root, n included, that write key
Writes(n, key) ==
  {m \in 1..Len(ctxs) :
     (m = n \/ IsAncestor(m, n)) /\ ctxs[m].kind = "Value" /\ ctxs[m].key = key}

\* The write nearest to n: every other write on the path lies above it
NearestWrite(n, key) ==
  CHOOSE m \in Writes(n, key) : \A o \in Writes(n, key) : o = m \/ IsAncestor(o, m)

DeriveOps ==
  {"withValue", "ctx.withValue", "Context.value", "withCancel", "withDeadline",
   "withTimeout"}

C22_ImmutableStep ==
  /\ Len(ctxs') >= Len(ctxs)
  /\ \A n \in 1..Len(ctxs) :
       /\ ctxs'[n] = ctxs[n]
       /\ canceler(ctxs', n) = canceler(ctxs, n)
       /\ \A key \in AllKeys : value(ctxs', n, key) = value(ctxs, n, key)

\* As stated: deriving a child always yields a new node
C22_AlwaysNewStep ==
  /\ C22_ImmutableStep
  /\ (last'.op \in DeriveOps /\ ~last'.threw) =>
       last'.ret \in (Len(ctxs) + 1)..Len(ctxs')

C22_AlwaysNew == [][C22_AlwaysNewStep]_vars

\* Deriving yields a new node, unless withCancel, withDeadline or
\* withTimeout is given a context already canceled: then it returns that
\* context itself
C22_NewUnlessCanceledStep ==
  /\ C22_ImmutableStep
  /\ (last'.op \in DeriveOps /\ ~last'.threw) =>
       IF last'.op \in {"withCancel", "withDeadline", "withTimeout"}
          /\ canceled(World, last'.c)
       THEN last'.ret = last'.c /\ ctxs' = ctxs
       ELSE last'.ret \in (Len(ctxs) + 1)..Len(ctxs')

C22_NewUnlessCanceled == [][C22_NewUnlessCanceledStep]_vars

\* A value written below a write of the same key by another value: the
\* parent still reads its own
C22_Witness ==
  /\ last.op \in {"withValue", "ctx.withValue"}
  /\ ~last.threw
  /\ last.ret = Len(ctxs)
  /\ ctxs[last.c].kind = "Value"
  /\ ctxs[last.c].key = last.key
  /\ value(ctxs, last.c, last.key) /= value(ctxs, last.ret, last.key)

(***************************************************************************)
(* C23.  Cancel and deadline nodes are transparent to value lookup: for    *)
(* the context c returned by withCancel(ctx), withDeadline(ctx, d) or      *)
(* withTimeout(ctx, ms) and every key k a caller can supply, c.value(k)    *)
(* equals ctx.value(k).                                                    *)
(***************************************************************************)
\* The context the last call returned reads, for each of the keys, what the
\* context it was derived from reads
Transparent(keys) ==
  (last.op \in {"withCancel", "withDeadline", "withTimeout"} /\ ~last.threw) =>
    \A key \in keys : value(ctxs, last.ret, key) = value(ctxs, last.c, key)

C23_Transparent == Transparent(KnownKeys)

\* The same for the keys a client makes itself
TransparentForOwnKeys == Transparent(ClientKeys)

NullKeyRejectedStep(ops) ==
  (last'.op \in ops /\ last'.key = NullKey) => last'.threw /\ ctxs' = ctxs

C25_NullKeyRejected ==
  [][NullKeyRejectedStep({"withValue", "ctx.withValue", "Context.value"})]_vars

\* The same for the method and the factory alone
NullKeyRejectedByContext ==
  [][NullKeyRejectedStep({"ctx.withValue", "Context.value"})]_vars

(***************************************************************************)
(* C26.  off(cb) removes at most the exact callback passed and never       *)
(* raises an error: if cb is pending it is removed and will not be invoked *)
(* by a later cancel, every other pending callback stays pending in the    *)
(* same relative order; if cb was never registered, was already invoked,   *)
(* or the Canceler already fired, off changes nothing.                     *)
(***************************************************************************)
C26_OffExactStep ==
  /\ last'.op = "off" =>
       /\ ~last'.threw
       /\ Len(clr') = Len(clr)
       /\ \A c \in 1..Len(clr) :
            clr'[c] = [clr[c] EXCEPT !.callbacks =
                         IF c = last'.c
                         THEN SelectSeq(@, LAMBDA cb : cb /= User(last'.k))
                         ELSE @]
       /\ \A i \in 1..Len(trace') : trace'[i].ev /= "call"
  \* a later cancel invokes only what is pending, or is registered meanwhile
  /\ last'.op = "cancel" =>
       \A i \in DrainCalls(trace', last'.c) :
         \/ trace'[i].cb \in Range(clr[last'.c].callbacks)
         \/ AddsBefore(trace', last'.c, i) /= {}

MaxWrap == 2

\* new Date(), made by the client: an object that is no Error
ClientDate ==
  [ty |-> "object", id |-> 3, canc |-> FALSE, dl |-> FALSE,
   isErr |-> FALSE, msg |-> "", cause |-> 0]

\* new CanceledError(), made by the client
ClientCanceledError == NewCanceledError(4, "", 0)

\* { a: 'b' }
ClientObject == [ClientDate EXCEPT !.id = 5]

\* console.log: a function
FnReason == [Undefined EXCEPT !.ty = "function"]

\* true
BoolReason == [Undefined EXCEPT !.ty = "boolean"]

\* The values a client starts from
ClientValues ==
  {Undefined, Null, StrReason, NumReason, BoolReason, FnReason, ClientDate,
   ClientObject, ClientPlainError, ClientCanceledError, ClientDeadlineError}

\* new DeadlineError(message, {cause}) allocated with identity id
NewDeadlineError(id, message, cause) ==
  [ty |-> "object", id |-> id, canc |-> TRUE, dl |-> TRUE, isErr |-> TRUE,
   msg |-> IF message = "" THEN "Context deadline was exceeded" ELSE message,
   cause |-> cause]

\* CanceledError.as: the value decorated in place, or Thrown
CanceledErrorAs(reason) ==
  IF reason.ty \in {"null", "undefined"} THEN reason
  ELSE IF reason.ty /= "object" THEN Thrown
  ELSE [reason EXCEPT !.canc = TRUE]

\* DeadlineError.as, were it to set SymErrDeadline alone
DeadlineErrorAsAlone(reason) ==
  IF reason.ty \in {"null", "undefined"} THEN reason
  ELSE IF reason.ty /= "object" THEN Thrown
  ELSE [reason EXCEPT !.dl = TRUE]

\* DeadlineError.as: the value decorated in place, or Thrown
DeadlineErrorAs(reason) ==
  IF reason.ty \in {"null", "undefined"} THEN reason
  ELSE IF reason.ty /= "object" THEN Thrown
  ELSE [reason EXCEPT !.canc = TRUE, !.dl = TRUE]

\* DeadlineError.create: the result, or Thrown
DeadlineErrorCreate(reason, id) ==
  IF DeadlineErrorIs(reason) /\ reason.isErr THEN reason
  ELSE IF reason.ty \in {"object", "null"} THEN NewDeadlineError(id, "", reason.id)
  ELSE IF reason.ty = "string" THEN NewDeadlineError(id, reason.msg, 0)
  ELSE IF reason.ty = "undefined" THEN NewDeadlineError(id, "", 0)
  ELSE Thrown

\* The identity of the object a create call allocates for the value x
FreshId(x) == x.id + ErrBase

\* How many times the value x has been wrapped
Wraps(x) == x.id \div ErrBase

\* What a call on the value x records: its result y, or x itself and threw
Returned(op, x, y) ==
  [Call(op, 0, 0, IF y = Thrown THEN x ELSE y) EXCEPT !.threw = (y = Thrown)]

InitErr ==
  /\ clr = <<>>
  /\ timers = <<>>
  /\ funcs = <<>>
  /\ ctxs = <<Node("Base", 0, "", Absent, 0)>>
  /\ now = 0
  /\ trace = <<>>
  /\ \E x \in ClientValues : last = Call("value", 0, 0, x)

\* CanceledError.as(x), x being the value in hand
CanceledAs ==
  /\ last' = Returned("CanceledError.as", last.r, CanceledErrorAs(last.r))
  /\ trace' = <<>>
  /\ UNCHANGED <<clr, timers, funcs, ctxs, now>>

\* DeadlineError.as(x)
DeadlineAs ==
  /\ last' = Returned("DeadlineError.as", last.r, DeadlineErrorAs(last.r))
  /\ trace' = <<>>
  /\ UNCHANGED <<clr, timers, funcs, ctxs, now>>

\* CanceledError.create(x)
CanceledCreate ==
  /\ Wraps(last.r) < MaxWrap
  /\ last' = Returned("CanceledError.create", last.r,
                      CanceledErrorCreate(last.r, FreshId(last.r)))
  /\ trace' = <<>>
  /\ UNCHANGED <<clr, timers, funcs, ctxs, now>>

\* DeadlineError.create(x)
DeadlineCreate ==
  /\ Wraps(last.r) < MaxWrap
  /\ last' = Returned("DeadlineError.create", last.r,
                      DeadlineErrorCreate(last.r, FreshId(last.r)))
  /\ trace' = <<>>
  /\ UNCHANGED <<clr, timers, funcs, ctxs, now>>

NextErr == CanceledAs \/ DeadlineAs \/ CanceledCreate \/ DeadlineCreate

SpecErr == InitErr /\ [][NextErr]_vars

(***************************************************************************)
(* C27.  DeadlineError is a strict refinement of CanceledError: for every  *)
(* value x DeadlineError.is(x) implies CanceledError.is(x) (for            *)
(* DeadlineError instances and for values decorated with DeadlineError.as),*)
(* while a plain CanceledError or a value decorated only with              *)
(* CanceledError.as does not satisfy DeadlineError.is.                     *)
(***************************************************************************)
C27_RefinementStep ==
  /\ DeadlineErrorIs(last.r) => CanceledErrorIs(last.r)
  /\ DeadlineErrorIs(last'.r) => CanceledErrorIs(last'.r)
  \* a value decorated with DeadlineError.as, a DeadlineError instance
  /\ (last'.op = "DeadlineError.as" /\ ~last'.threw /\ last'.r.ty = "object") =>
       DeadlineErrorIs(last'.r) /\ CanceledErrorIs(last'.r)
  /\ (last'.op = "DeadlineError.create" /\ ~last'.threw) =>
       DeadlineErrorIs(last'.r) /\ CanceledErrorIs(last'.r)
  \* a value decorated only with CanceledError.as, a plain CanceledError
  /\ (last'.op = "CanceledError.as" /\ ~last'.threw /\ last'.r.ty = "object") =>
       /\ CanceledErrorIs(last'.r)
       /\ ~DeadlineErrorIs(last.r) => ~DeadlineErrorIs(last'.r)
  /\ (last'.op = "CanceledError.create" /\ ~last'.threw /\ last'.r /= last.r) =>
       CanceledErrorIs(last'.r) /\ ~DeadlineErrorIs(last'.r)
  /\ CanceledErrorIs(ClientCanceledError) /\ ~DeadlineErrorIs(ClientCanceledError)

C27_Refinement == [][C27_RefinementStep]_vars

\* A Date decorated with DeadlineError.as
C27_Witness ==
  /\ last.op = "DeadlineError.as"
  /\ ~last.threw
  /\ last.r.id = ClientDate.id
  /\ DeadlineErrorIs(last.r)

(***************************************************************************)
(* C28.  CanceledError.create(x) and DeadlineError.create(x) preserve      *)
(* identity whenever the input already satisfies the target predicate: if  *)
(* CanceledError.is(x) (resp. DeadlineError.is(x)) holds, the result is x  *)
(* itself; in particular create is idempotent, create(create(x)) is        *)
(* create(x).                                                              *)
(***************************************************************************)
\* create applied to what the create call just made returns it
IdempotentStep ==
  /\ (last'.op = "CanceledError.create" /\ ~last'.threw) =>
       CanceledErrorCreate(last'.r, FreshId(last'.r)) = last'.r
  /\ (last'.op = "DeadlineError.create" /\ ~last'.threw) =>
       DeadlineErrorCreate(last'.r, FreshId(last'.r)) = last'.r

\* As stated: the predicate alone makes create return its input
C28_IdentityIfIsStep ==
  /\ (last'.op = "CanceledError.create" /\ CanceledErrorIs(last.r)) =>
       ~last'.threw /\ last'.r = last.r
  /\ (last'.op = "DeadlineError.create" /\ DeadlineErrorIs(last.r)) =>
       ~last'.threw /\ last'.r = last.r
  /\ IdempotentStep

C28_IdentityIfIs == [][C28_IdentityIfIsStep]_vars

\* The predicate and instanceof Error together make create return its input
C28_IdentityIfErrorStep ==
  /\ (last'.op = "CanceledError.create" /\ CanceledErrorIs(last.r) /\ last.r.isErr) =>
       ~last'.threw /\ last'.r = last.r
  /\ (last'.op = "DeadlineError.create" /\ DeadlineErrorIs(last.r) /\ last.r.isErr) =>
       ~last'.threw /\ last'.r = last.r
  /\ IdempotentStep

C28_IdentityIfError == [][C28_IdentityIfErrorStep]_vars

\* CanceledError.create has returned the Error decorated with
\* CanceledError.as that it was given
C28_Witness ==
  /\ last.op = "CanceledError.create"
  /\ ~last.threw
  /\ last.r = CanceledErrorAs(ClientPlainError)

(***************************************************************************)
(* The three triggers of one deadline context.  The state after            *)
(*   const [p, cancelP] = Context.cancel();                                *)
(*   const [c, cancelC] = withDeadline(p, deadline);                       *)
(* and the parties that may then cancel c: the timer, a client calling     *)
(* cancelC, a client calling cancelP (the cascade), and listeners that     *)
(* call the cancel function again while the drain runs.                    *)
(***************************************************************************)
\* The listeners registered on p and c
RaceCbs == {1, 3, 5}

\* The world before anything is made
EmptyWorld ==
  [clr |-> <<>>, timers |-> <<>>, funcs |-> <<>>,
   ctxs |-> <<Node("Base", 0, "", Absent, 0)>>,
   trace |-> <<>>, exc |-> FALSE, ret |-> 0, noop |-> FALSE, now |-> 0]

\* The world after Context.cancel() and withDeadline(p, MaxTime)
RaceWorld ==
  LET wp == withCancel(EmptyWorld, 0)
  IN withDeadline([wp EXCEPT !.trace = <<>>], wp.ret, MaxTime, 0)

InitRace ==
  /\ clr = RaceWorld.clr
  /\ timers = RaceWorld.timers
  /\ funcs = RaceWorld.funcs
  /\ ctxs = RaceWorld.ctxs
  /\ now = 0
  /\ last = [Call("withDeadline", 2, 0, Undefined) EXCEPT !.d = MaxTime, !.ret = RaceWorld.ret]
  /\ trace = <<>>

NextRace ==
  \/ \E c \in 1..MaxClr, k \in RaceCbs : OnCancel(c, k, MaxPending)
  \/ \E c \in 1..MaxClr, r \in TreeReasons : Cancel(c, r)
  \/ \E c \in 1..MaxClr : TimerElapse(c)
  \/ Tick

SpecRace == InitRace /\ [][NextRace]_vars

\* The Cancelers of the deadline contexts that have a cancelable parent
RacedClrs == {c \in 1..Len(clr) : funcs[c].t = "dlwrap"}

\* The later triggers change nothing: a Canceler that is canceled stays as
\* it is through every timer, cancel call and cascade, and the cause is
\* fixed by the first
OnlyFirstStep ==
  \A c \in RacedClrs :
    /\ (~clr[c].canceled /\ clr'[c].canceled) => clr'[c].err /= Null
    /\ clr[c].err /= Null => clr'[c].err = clr[c].err
    /\ (clr[c].canceled /\ last'.op \in {"timer", "cancel"}) =>
         /\ clr'[c] = clr[c]
         /\ Evs(trace', "call", c) = {}

\* How often the drain loop of Canceler c called callback cb
Drained(tr, c, cb) == Cardinality({i \in DrainCalls(tr, c) : tr[i].cb = cb})

\* No listener is invoked by a drain more often than it was registered
AtMostOnceStep ==
  \A c \in RacedClrs, k \in RaceCbs :
    Drained(trace', c, User(k)) <=
      (IF User(k) \in Range(clr[c].callbacks) THEN 1 ELSE 0)
        + Count(trace', "add", c, User(k))

(***************************************************************************)
(* C29.  A cancel function may be triggered by several parties at once and *)
(* only the first has effect: for a deadline context with a cancelable     *)
(* parent, in every interleaving of the three triggers (timer elapse,      *)
(* direct call of its cancel function, parent cascade) each listener of    *)
(* the context is invoked exactly once, the cause is fixed by the trigger  *)
(* that ran first, and the later triggers change nothing.                  *)
(***************************************************************************)
C29_FirstTriggerStep ==
  /\ OnlyFirstStep
  /\ AtMostOnceStep
  \* the trigger that cancels the context invokes each of its listeners
  /\ \A c \in RacedClrs, k \in RaceCbs :
       (~clr[c].canceled /\ clr'[c].canceled /\ User(k) \in Range(clr[c].callbacks)) =>
          Drained(trace', c, User(k)) >= 1

C29_FirstTrigger == [][C29_FirstTriggerStep]_vars

\* The same but for the listeners behind one that throws
FirstTriggerButThrow ==
  [][OnlyFirstStep /\ AtMostOnceStep]_vars

(***************************************************************************)
(* C30.  The firing flag is true only during the synchronous execution of  *)
(* the drain loop: in every state in which no cancel call is executing on  *)
(* a Canceler its firing flag is false, however the cancel call ended      *)
(* (normal return or an exception thrown by a callback or by wrapping the  *)
(* reason), so a callback registered after a finished cancel call is       *)
(* invoked immediately rather than queued.                                 *)
(***************************************************************************)
\* Between two steps no call is executing
C30_NotFiringAtRestStep ==
  /\ \A c \in 1..Len(clr) : ~clr[c].canceling
  /\ \A c \in 1..Len(clr') : ~clr'[c].canceling
  /\ (last'.op = "onCancel" /\ last'.was) =>
       /\ User(last'.k) \notin Range(clr'[last'.c].callbacks)
       /\ \E i \in Evs(trace', "call", last'.c) :
            trace'[i].cb = User(last'.k) /\ trace'[i].imm

C30_NotFiringAtRest == [][C30_NotFiringAtRestStep]_vars

\* Only a call that throws leaves the flag set
FiringOnlyAfterThrow ==
  [][\A c \in 1..Len(clr) :
       (~clr[c].canceling /\ clr'[c].canceling) => last'.threw]_vars

(***************************************************************************)
(* C31.  A reason passed to a cancel function determines the cause in the  *)
(* same way for every cancelable context: calling the cancel function      *)
(* returned by withCancel (or withDeadline) with reason r leaves           *)
(* canceler.err equal to CanceledError.create(r), whether the context is a *)
(* root or has a cancelable parent.                                        *)
(***************************************************************************)
\* The cancel function of a context of one of the kinds, called with a
\* reason on a context not yet canceled, leaves the cause made of the reason
ReasonKeptStep(kinds) ==
  (last'.op = "cancel" /\ ~last'.was /\ funcs[last'.c].t \in kinds) =>
    clr'[last'.c].err = CanceledErrorCreate(last'.r, ErrBase + last'.c)

C31_ReasonKept == [][ReasonKeptStep({"cfn", "wrap", "cac", "dlwrap"})]_vars

\* The same for the functions that are the bound #cancel itself
ReasonKeptByBound == [][ReasonKeptStep({"cfn"})]_vars

(***************************************************************************)
(* C32.  In every reachable state, every Canceler obtainable through the   *)
(* public interface that is canceled has a non-null err satisfying         *)
(* CanceledError.is, so a callback registered after cancellation always    *)
(* receives a CanceledError.                                               *)
(***************************************************************************)
C32_CanceledHasErr ==
  /\ \A c \in 1..Len(clr) :
       clr[c].canceled => clr[c].err /= Null /\ CanceledErrorIs(clr[c].err)
  /\ \A i \in 1..Len(trace) :
       (trace[i].ev = "call" /\ trace[i].imm) => CanceledErrorIs(trace[i].err)

(***************************************************************************)
(* C33.  A failed cancel call leaves the Canceler unchanged: when a cancel *)
(* function is called with a reason that CanceledError.create rejects, the *)
(* call raises an error and the Canceler is still not canceled, its err is *)
(* still null, its pending callbacks are untouched, and a later valid      *)
(* cancel call fires them normally.                                        *)
(***************************************************************************)
\* CanceledError.create rejects the reason
Rejected(reason) == CanceledErrorCreate(reason, ErrBase) = Thrown

C33_FailedCancelStep ==
  /\ (last'.op = "cancel" /\ ~last'.was /\ Rejected(last'.r)) =>
       /\ last'.threw
       /\ clr'[last'.c] = clr[last'.c]
       /\ ~clr'[last'.c].canceled
       /\ clr'[last'.c].err = Null
  \* a valid cancel call fires whatever is pending
  /\ (last'.op = "cancel" /\ ~Rejected(last'.r) /\ clr[last'.c].callbacks /= <<>>) =>
       \E i \in DrainCalls(trace', last'.c) :
         trace'[i].cb = Head(clr[last'.c].callbacks)

C33_FailedCancel == [][C33_FailedCancelStep]_vars

\* A cancel call with a rejected reason throws, invokes nothing and leaves
\* the pending callbacks in place
RejectedCancelThrows ==
  [][(last'.op = "cancel" /\ ~last'.was /\ Rejected(last'.r)) =>
       last'.threw /\ trace' = <<>> /\ clr'[last'.c].callbacks = clr[last'.c].callbacks]_vars

\* The dates a client makes: new Date(0) .. new Date(MaxTime)
ClientDates == {Date(d) : d \in 0..MaxTime}

\* Deadlines under an IContext of the client's own: the client makes its
\* context, derives contexts from it and from its descendants, and writes
\* dates under the keys it has come to know
NextKey ==
  \/ ClientContext(MaxKeyCtx)
  \/ \E n \in 1..MaxKeyCtx, key \in KnownKeys, val \in ClientDates :
       WithValue(n, key, val, MaxKeyCtx)
  \/ \E n \in 1..MaxKeyCtx : WithCancel(n, MaxKeyCtx)
  \/ \E n \in 1..MaxKeyCtx, d \in 0..MaxTime : WithDeadline(n, d, MaxKeyCtx)
  \/ \E n \in 1..MaxKeyCtx, ms \in 0..1 : WithTimeout(n, ms, MaxKeyCtx)

SpecKey == Init /\ [][NextKey]_vars

(***************************************************************************)
(* C34.  Deadlines are monotone along every chain: after any sequence of   *)
(* withDeadline / withTimeout / withCancel / withValue derivations, the    *)
(* deadline value nearest to a node (the one getDeadline returns) is the   *)
(* earliest of all deadline values stored on the path from that node to    *)
(* the root.                                                               *)
(***************************************************************************)
C34_NearestIsEarliest ==
  \A n \in 1..Len(ctxs) :
    \A m \in Writes(n, ctxKeyDeadline) :
      getDeadline(ctxs, n).n <= ctxs[m].val.n

(***************************************************************************)
(* C35.  No dangling cascade listener: in every reachable state, for every *)
(* Canceler P that has not fired, each cascade callback held in P's        *)
(* listener set belongs to a child Canceler that has not fired; the number *)
(* of cascade callbacks in P equals the number of its directly linked      *)
(* children that are not yet canceled, whichever way each child was        *)
(* canceled (own cancel function, timer, or cascade).                      *)
(***************************************************************************)
\* The cascade callbacks held by Canceler p
CascadeCbs(p) == {cb \in Range(clr[p].callbacks) : cb.t \in {"cfn", "cac"}}

\* The Cancelers registered with Canceler p when they were made, and not
\* canceled since
LiveChildren(p) == {c \in 1..Len(clr) : funcs[c].par = p /\ ~clr[c].canceled}

C35_NoDangling ==
  \A p \in 1..Len(clr) :
    ~clr[p].canceled =>
      /\ \A cb \in CascadeCbs(p) : cb.n \in LiveChildren(p) /\ cb = CascadeCb(cb.n)
      /\ Cardinality(CascadeCbs(p)) = Cardinality(LiveChildren(p))

\* The timer of a deadline child has just canceled it, under a parent that is
\* not canceled and holds no cascade callback any more
C35_Witness ==
  /\ last.op = "timer"
  /\ ~last.was
  /\ funcs[last.c].par /= 0
  /\ clr[last.c].canceled
  /\ ~clr[funcs[last.c].par].canceled
  /\ CascadeCbs(funcs[last.c].par) = {}

(***************************************************************************)
(* C36.  The listener collection has set semantics: registering the same   *)
(* callback reference again on a pending Canceler leaves one entry, at the *)
(* position of its first registration; a cancel call invokes the callback  *)
(* exactly once for it (unless it is unregistered first), and a single off *)
(* removes it entirely.                                                    *)
(***************************************************************************)
\* The events ev of the trace tr for callback cb of Canceler c that no
\* registration of cb made in the same step precedes: they concern the entry
\* that was pending when the step began
OfPending(tr, ev, c, cb) ==
  {i \in Evs(tr, ev, c) : tr[i].cb = cb /\ ~tr[i].imm /\ AddsBefore(tr, c, i) = {}}

\* No callback is held twice
OneEntryEach(q) == \A i, j \in 1..Len(q) : q[i] = q[j] => i = j

C36_SetSemanticsStep ==
  /\ \A c \in 1..Len(clr') : OneEntryEach(clr'[c].callbacks)
  \* registering a pending callback again changes nothing
  /\ (/\ last'.op = "onCancel"
      /\ ~last'.was
      /\ User(last'.k) \in Range(clr[last'.c].callbacks)) =>
        SameObjects /\ trace' = <<>> /\ ~last'.threw
  \* a cancel call invokes the pending entry once, or it was unregistered
  /\ \A c \in 1..Len(clr) :
       \A cb \in Range(clr[c].callbacks) :
         /\ Cardinality(OfPending(trace', "call", c, cb)) <= 1
         /\ Fired(c) =>
              Cardinality(OfPending(trace', "call", c, cb))
                + Cardinality(OfPending(trace', "del", c, cb)) = 1
  \* one off removes the callback
  /\ last'.op = "off" => User(last'.k) \notin Range(clr'[last'.c].callbacks)

C36_SetSemantics == [][C36_SetSemanticsStep]_vars

\* A callback pending in front of another has just been registered again
C36_Witness ==
  /\ last.op = "onCancel"
  /\ ~last.was
  /\ trace = <<>>
  /\ Len(clr[last.c].callbacks) >= 2
  /\ clr[last.c].callbacks[1] = User(last.k)

(***************************************************************************)
(* C37.  Every cancel call terminates with an empty listener set and       *)
(* firing false, provided no callback throws and the callbacks register    *)
(* only a bounded total number of further callbacks during the drain; this *)
(* holds also when a callback registers a callback that was already        *)
(* invoked in the same drain.                                              *)
(***************************************************************************)
\* A client listener whose body throws was called in the step
CallbackThrew(tr) ==
  \E i \in 1..Len(tr) :
    /\ tr[i].ev = "call"
    /\ tr[i].cb.t = "user"
    /\ \E j \in 1..Len(Script(tr[i].cb.n)) : Script(tr[i].cb.n)[j].op = "throw"

\* The cancel call made on a Canceler not yet canceled leaves it drained
DrainedStep ==
  clr'[last'.c].callbacks = <<>> /\ ~clr'[last'.c].canceling

C37_TerminatesStep ==
  (last'.op = "cancel" /\ ~last'.was /\ ~CallbackThrew(trace')) => DrainedStep

C37_Terminates == [][C37_TerminatesStep]_vars

\* The same of the calls whose reason CanceledError.create can wrap
TerminatesIfWrapped ==
  [][(last'.op = "cancel" /\ ~last'.was /\ ~CallbackThrew(trace')
        /\ ~Rejected(last'.r)) => DrainedStep /\ ~last'.threw]_vars

\* A drain in which a listener registered a callback that the drain had
\* invoked already, and which ran to its end
ReRegisteredInDrain ==
  /\ last.op = "cancel"
  /\ ~last.was
  /\ ~last.threw
  /\ clr[last.c].callbacks = <<>>
  /\ ~clr[last.c].canceling
  /\ \E a \in Evs(trace, "add", last.c) :
       /\ \E i \in DrainCalls(trace, last.c) : i < a /\ trace[i].cb = trace[a].cb
       /\ \E i \in DrainCalls(trace, last.c) : a < i /\ trace[i].cb = trace[a].cb

(***************************************************************************)
(* C38.  Unregistration during a drain takes effect: if a callback running *)
(* inside a cancel call calls off(cb2) for a callback cb2 that is still    *)
(* pending on the same Canceler, cb2 is not invoked by that cancel call or *)
(* ever after; off for a callback already invoked in this drain changes    *)
(* nothing.                                                                *)
(***************************************************************************)
\* How many events ev of Canceler c for callback cb precede position i
Before(tr, ev, c, cb, i) ==
  Cardinality({j \in Evs(tr, ev, c) : j < i /\ tr[j].cb = cb /\ ~tr[j].imm})

\* Whether cb is in the listener set of Canceler c when the event at position
\* i of the trace is made; q is the listener set before the step
PendingAt(q, tr, c, cb, i) ==
  (IF cb \in Range(q) THEN 1 ELSE 0) + Before(tr, "add", c, cb, i)
    > Before(tr, "call", c, cb, i) + Before(tr, "del", c, cb, i)

\* The listeners whose body begins with off(cb2)
OffCbs == {k \in UserCbs : Script(k) /= <<>> /\ Script(k)[1].op = "off"}

C38_OffInDrainStep ==
  \A c \in 1..Len(clr) :
    \A i \in DrainCalls(trace', c) :
      \* a later cancel invokes what is in the set, or is registered meanwhile
      /\ Registered(clr[c].callbacks, trace', c, i)
      /\ \A k \in OffCbs :
           trace'[i].cb = User(k) =>
             LET cb2 == User(Script(k)[1].arg)
             IN IF PendingAt(clr[c].callbacks, trace', c, cb2, i)
                THEN \* cb2 leaves the set and this cancel call does not invoke it
                     /\ i < Len(trace')
                     /\ trace'[i + 1] = Event("del", c, cb2, Null, FALSE)
                     /\ \A j \in DrainCalls(trace', c) :
                          (j > i /\ trace'[j].cb = cb2) =>
                             \E a \in Evs(trace', "add", c) :
                               i < a /\ a < j /\ trace'[a].cb = cb2
                     /\ (\A a \in Evs(trace', "add", c) : a > i => trace'[a].cb /= cb2) =>
                          cb2 \notin Range(clr'[c].callbacks)
                ELSE \* nothing is removed
                     i = Len(trace') \/ trace'[i + 1].ev /= "del"

C38_OffInDrain == [][C38_OffInDrainStep]_vars

\* A cancel call that returned, in which a listener unregistered one pending
\* behind it: that one was not invoked, a third one behind both was
C38_Witness ==
  /\ last.op = "cancel"
  /\ ~last.was
  /\ ~last.threw
  /\ \E k \in OffCbs :
       \E i \in DrainCalls(trace, last.c) :
         /\ trace[i].cb = User(k)
         /\ i < Len(trace)
         /\ trace[i + 1] = Event("del", last.c, User(Script(k)[1].arg), Null, FALSE)
         /\ Count(trace, "call", last.c, User(Script(k)[1].arg)) = 0
         /\ \E j \in DrainCalls(trace, last.c) : j > i + 1

\* A cancel call in which a listener unregistered one the drain had invoked
\* already
OffAfterInvoked ==
  /\ last.op = "cancel"
  /\ ~last.was
  /\ \E k \in OffCbs :
       \E i, j \in DrainCalls(trace, last.c) :
         /\ i < j
         /\ trace[i].cb = User(Script(k)[1].arg)
         /\ trace[j].cb = User(k)
         /\ Evs(trace, "del", last.c) = {}

(***************************************************************************)
(* The order of a cascade: contexts are derived from one another, clients  *)
(* register listeners on their Cancelers before and after, and cancel      *)
(* them.                                                                   *)
(***************************************************************************)
\* The listeners registered: two that do nothing more
OrderCbs == {1, 2}

NextOrder ==
  \/ \E c \in 1..MaxClr, k \in OrderCbs : OnCancel(c, k, MaxOrderListen)
  \/ \E n \in 1..MaxCtx : WithCancel(n, MaxCtx)
  \/ \E n \in 1..MaxCtx : WithDeadline(n, MaxTime, MaxCtx)
  \/ \E c \in 1..MaxClr : Cancel(c, Undefined)

SpecOrder == Init /\ [][NextOrder]_vars

(***************************************************************************)
(* C39.  Cascade is depth-first in registration order: a child's cascade   *)
(* callback occupies one FIFO position in the parent's queue, so when the  *)
(* parent is canceled every listener registered on the parent before the   *)
(* child was created runs before any listener of that child, and all       *)
(* listeners of the child (and of its descendants) run before any parent   *)
(* listener registered after the child was created.                        *)
(***************************************************************************)
\* The positions of the trace tr at which a callback was called
Calls(tr) == {i \in 1..Len(tr) : tr[i].ev = "call"}

\* The call at position i of the trace is made by Canceler p for a listener
\* that was pending in q, the listeners of p before the step, at a position
\* in ps
CallOfPending(q, tr, p, i, ps) ==
  /\ tr[i].clr = p
  /\ AddsBefore(tr, p, i) = {}
  /\ \E a \in ps : q[a] = tr[i].cb

C39_DepthFirstStep ==
  \A p \in 1..Len(clr) :
    \A x \in 1..Len(clr[p].callbacks) :
      clr[p].callbacks[x].t \in {"cfn", "cac"} =>
        LET q == clr[p].callbacks
            sub == {q[x].n} \cup Desc(q[x].n)
        IN \A i, j \in Calls(trace') :
             \* registered on the parent before the child was made
             /\ (CallOfPending(q, trace', p, i, 1..(x - 1)) /\ trace'[j].clr \in sub)
                   => i < j
             \* registered on the parent after the child was made, before the
             \* step or in it
             /\ (/\ trace'[i].clr \in sub
                 /\ trace'[j].clr = p
                 /\ \/ CallOfPending(q, trace', p, j, (x + 1)..Len(q))
                    \/ AddsBefore(trace', p, j) /= {})
                   => i < j
             \* the child's callback is called between the two
             /\ (trace'[i].clr = p /\ trace'[i].cb = q[x] /\ trace'[j].clr \in sub)
                   => i < j

C39_DepthFirst == [][C39_DepthFirstStep]_vars

\* A parent was canceled that had a listener, then a child, then another
\* listener; the child had a listener and a child of its own with a
\* listener: the calls came in that order
C39_Witness ==
  /\ last.op = "cancel"
  /\ ~last.was
  /\ ~last.threw
  /\ \E c \in 1..Len(clr), g \in 1..Len(clr) :
       /\ funcs[c].par = last.c
       /\ funcs[g].par = c
       /\ \E i1, i2, i3, i4, i5, i6 \in Calls(trace) :
            /\ i1 < i2 /\ i2 < i3 /\ i3 < i4 /\ i4 < i5 /\ i5 < i6
            /\ trace[i1].clr = last.c /\ trace[i1].cb.t = "user"
            /\ trace[i2].clr = last.c /\ trace[i2].cb = CascadeCb(c)
            /\ trace[i3].clr = c /\ trace[i3].cb.t = "user"
            /\ trace[i4].clr = c /\ trace[i4].cb = CascadeCb(g)
            /\ trace[i5].clr = g /\ trace[i5].cb.t = "user"
            /\ trace[i6].clr = last.c /\ trace[i6].cb.t = "user"

====
